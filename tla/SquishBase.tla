----------------------------- MODULE SquishBase -----------------------------
(***************************************************************************)
(* goldlib/gmb3/gmosqsh*.cpp: a Squish message base used by one or several *)
(* programs.  The .sqd file is the base record (sqb) and the frames (frm), *)
(* the .sqi file the index (sqi).  A program works on copies of the base   *)
(* record and of the index, data[p].base and data[p].idx, which it reads   *)
(* when it opens the base and again whenever it has locked it; its list of *)
(* message numbers, Area::Msgn, is made once, when the base is opened.     *)
(*                                                                         *)
(* What a call does to the frames is one step: it happens under the lock   *)
(* on byte 0 of the .sqd.  The writes of the base record and of the index  *)
(* are steps of their own, because unlock makes them after it has let go   *)
(* of that lock.  The .sql lastread file is left out.                      *)
(***************************************************************************)
EXTENDS SquishFrames, FiniteSets

CONSTANTS Proc,          \* the programs
          NoProc,
          Blank,         \* the files have just been created, and are empty
          Posted,        \* the messages in the base at the start
          MaxMsgs,       \* maxmsgs and protmsgs of the base record, which
          ProtMsgs,      \*   other programs set up
          Recycles,      \* the values of wide->recycle
          Sizes,         \* the sizes of a message: header, kludges and text
          Calls,         \* the calls the programs make
          MayCrash,      \* the programs that may be killed
          MaxNumber,     \* bound on the message numbers
          MaxEnd         \* bound on the size of the .sqd

AllCalls == {"new", "hdr", "txt", "del", "timesread", "lock"}

\* What the proofs, and every instance, take for granted.
BaseAssumption ==
    /\ NoProc \notin Proc /\ MayCrash \subseteq Proc
    /\ MaxMsgs \in Nat /\ ProtMsgs \in Nat /\ (MaxMsgs # 0 => ProtMsgs < MaxMsgs)
    /\ Blank \in BOOLEAN /\ Posted \in Nat
    /\ Calls \subseteq AllCalls /\ Sizes \subseteq Nat \ {0} /\ Sizes # {}
    /\ Recycles \subseteq {SQUISHRECYCLE_NO, SQUISHRECYCLE_YES,
                           SQUISHRECYCLE_MSGAPI1, SQUISHRECYCLE_MSGAPI2}

VARIABLES frm, sqb, sqi,  \* the files
          holder,         \* who has locked byte 0 of the .sqd
          recycle,        \* wide->recycle
          pc,             \* where each program is in the driver
          islocked,       \* data->islocked while Area::Lock is in effect
          data,           \* its copies: base, idx and Msgn
          op              \* the call it is making

files == <<frm, sqb, sqi>>
vars  == <<frm, sqb, sqi, holder, recycle, pc, islocked, data, op>>

\* The base record refresh makes up for an empty .sqd.
NewBase == [totalmsgs |-> 0, highestmsg |-> 0, protmsgs |-> 0, nextmsgno |-> 2,
            firstframe |-> SQFRAME_NULL, lastframe |-> SQFRAME_NULL,
            firstfreeframe |-> SQFRAME_NULL, lastfreeframe |-> SQFRAME_NULL,
            endframe |-> BaseSize, maxmsgs |-> 0]
NoBase  == [NewBase EXCEPT !.endframe = 0]
NoData  == [base |-> NoBase, idx |-> <<>>, msgn |-> <<>>]
NoOp    == [mode |-> "none", msg |-> NoMsg, size |-> 0,
            old |-> SQFRAME_NULL, oldfr |-> init_frm,
            at |-> SQFRAME_NULL, fr |-> init_frm]

\* A base with the given number of messages, each of the least size.
MinSize == CHOOSE n \in Sizes : \A m \in Sizes : n <= m
At(i)   == BaseSize + (i - 1) * (FrmSize + MinSize)
Old(i)  == [msgno |-> i + 1, by |-> "nobody"]
OldFrame(i) ==
    [init_frm EXCEPT !.length = MinSize, !.totsize = MinSize,
                     !.hdr = Old(i), !.txt = Old(i),
                     !.prev = IF i = 1 THEN SQFRAME_NULL ELSE At(i - 1),
                     !.next = IF i = Posted THEN SQFRAME_NULL ELSE At(i + 1)]
OldBase ==
    [NewBase EXCEPT !.totalmsgs = Posted, !.highestmsg = Posted,
                    !.protmsgs = ProtMsgs, !.maxmsgs = MaxMsgs,
                    !.nextmsgno = Posted + 2, !.endframe = At(Posted + 1),
                    !.firstframe = IF Posted = 0 THEN SQFRAME_NULL ELSE At(1),
                    !.lastframe  = IF Posted = 0 THEN SQFRAME_NULL ELSE At(Posted)]

Init ==
    /\ frm = IF Blank THEN [o \in {} |-> init_frm]
             ELSE [o \in {At(i) : i \in 1..Posted} |->
                      OldFrame(CHOOSE i \in 1..Posted : At(i) = o)]
    /\ sqb = IF Blank THEN NoBase ELSE OldBase
    /\ sqi = IF Blank THEN <<>>
             ELSE [i \in 1..Posted |-> [offset |-> At(i), msgno |-> i + 1]]
    /\ holder = NoProc
    /\ recycle \in Recycles
    /\ pc = [p \in Proc |-> "closed"]
    /\ islocked = [p \in Proc |-> FALSE]
    /\ data = [p \in Proc |-> NoData]
    /\ op = [p \in Proc |-> NoOp]

-----------------------------------------------------------------------------
\* raw_scan: the numbers of the index, up to the first that does not go up;
\* none at all if the first two are the same.
Numbers(idx) == [i \in DOMAIN idx |-> idx[i].msgno]
Scan(idx) ==
    LET rising(n) == \A i \in 1..n : idx[i].msgno >
                        IF i = 1 THEN 0 ELSE idx[i - 1].msgno
        upto == CHOOSE n \in 0..Len(idx) :
                    rising(n) /\ \A m \in (n + 1)..Len(idx) : ~rising(m)
    IN  IF upto = 1 /\ Len(idx) > 1 /\ idx[2].msgno = idx[1].msgno THEN <<>>
        ELSE SubSeq(Numbers(idx), 1, upto)

\* GTag::ToReln, exact: the position of a number, or 0.
ToReln(msgn, n) ==
    IF \E i \in DOMAIN msgn : msgn[i] = n
    THEN CHOOSE i \in DOMAIN msgn : msgn[i] = n ELSE 0

\* Mutant: bisects between cells that are still candidates, but stops when
\* two are left.
find_msgn_StopsEarly(idx, n) ==
    LET step[s \in [left : Nat, right : Int]] ==
            LET mid == (s.left + s.right) \div 2
                l == IF n > idx[mid + 1].msgno THEN mid + 1 ELSE s.left
                r == IF n < idx[mid + 1].msgno THEN mid - 1 ELSE s.right
            IN  IF n = idx[mid + 1].msgno THEN mid + 1
                ELSE IF l + 1 < r THEN step[[left |-> l, right |-> r]]
                ELSE IF n = idx[l + 1].msgno THEN l + 1 ELSE 0
    IN  IF idx = <<>> \/ n = 0 \/ n > idx[Len(idx)].msgno THEN 0
        ELSE step[[left |-> 0, right |-> Len(idx)]]

\* find_msgn: a bisection of the index, its cells counted from 0.  right is
\* one past the last cell at first and the last cell itself afterwards.
find_msgn(idx, n) ==
    LET step[s \in [left : Nat, right : Int]] ==
            LET mid == (s.left + s.right) \div 2
                l == IF n > idx[mid + 1].msgno THEN mid + 1 ELSE s.left
                r == IF n < idx[mid + 1].msgno THEN mid - 1 ELSE s.right
            IN  IF n = idx[mid + 1].msgno THEN mid + 1
                ELSE IF l < r THEN step[[left |-> l, right |-> r]]
                ELSE IF n = idx[l + 1].msgno THEN l + 1 ELSE 0
    IN  IF idx = <<>> \/ n = 0 \/ n > idx[Len(idx)].msgno THEN 0
        ELSE step[[left |-> 0, right |-> Len(idx)]]

\* refresh: first the base record, written anew if the file is empty ...
ReadBase(p, next) ==
    LET base == IF sqb = NoBase THEN NewBase ELSE sqb
    IN  /\ sqb' = base
        /\ data' = [data EXCEPT ![p].base = base]
        /\ pc' = [pc EXCEPT ![p] = next]
        /\ UNCHANGED <<frm, sqi, holder, recycle, islocked, op>>

\* ... then as much of the index as it announces.  An entry the file does not
\* have is whatever the memory held.
Junk == [offset |-> SQFRAME_NULL, msgno |-> 0]
Index(p) ==
    [i \in 1..data[p].base.totalmsgs |-> IF i \in DOMAIN sqi THEN sqi[i] ELSE Junk]

\* open: raw_open, refresh and scan, all without the lock.
Open(p)     == pc[p] = "closed" /\ ReadBase(p, "opening")
OpenScan(p) ==
    /\ pc[p] = "opening"
    /\ data' = [data EXCEPT ![p].idx = Index(p), ![p].msgn = Scan(Index(p))]
    /\ pc' = [pc EXCEPT ![p] = "idle"]
    /\ UNCHANGED <<files, holder, recycle, islocked, op>>

\* close and suspend: nothing is written but the lastread.  After suspend the
\* program goes on, with resume, as if nothing had happened.
Close(p) ==
    /\ pc[p] = "idle"
    /\ data' = [data EXCEPT ![p] = NoData]
    /\ pc' = [pc EXCEPT ![p] = "closed"]
    /\ UNCHANGED <<files, holder, recycle, islocked, op>>

-----------------------------------------------------------------------------
\* A program makes a call about a message of its Msgn, which it has loaded:
\* load_message reads the frame the index names, without the lock, and wants
\* it normal.  A new message has no number yet.
Loaded(p) ==
    {[msgno |-> data[p].msgn[i], by |-> frm[data[p].idx[i].offset].txt.by] :
        i \in {j \in DOMAIN data[p].msgn :
                  /\ j \in DOMAIN data[p].idx
                  /\ data[p].idx[j].offset \in DOMAIN frm
                  /\ frm[data[p].idx[j].offset].type = "normal"}}

\* Room within the bounds of the model for one more message, in any frame.
Bounded(p, mode, size) ==
    mode \in {"new", "txt"} =>
        /\ data[p].base.endframe + FrmSize + size <= MaxEnd
        /\ mode = "new" => data[p].base.nextmsgno <= MaxNumber

Op(p, mode) ==
    \E size \in IF mode \in {"new", "txt"} THEN Sizes ELSE {0},
       msg  \in CASE mode = "new"  -> {[NoMsg EXCEPT !.by = p]}
                  [] mode = "lock" -> {NoMsg}
                  [] OTHER         -> Loaded(p) :
        /\ Bounded(p, mode, size)
        /\ op' = [op EXCEPT ![p] = [NoOp EXCEPT !.mode = mode, !.msg = msg, !.size = size]]

Call(p) ==
    /\ pc[p] = "idle"
    /\ \E mode \in Calls : Op(p, mode)
    /\ pc' = [pc EXCEPT ![p] = "lock"]
    /\ UNCHANGED <<files, holder, recycle, islocked, data>>

\* Mutant: goes on although another program has the lock.
Acquire_NotRetried(p) ==
    /\ pc[p] = "lock"
    /\ holder' = p
    /\ pc' = [pc EXCEPT ![p] = "refresh"]
    /\ UNCHANGED <<files, recycle, islocked, data, op>>

\* lock: ::lock, retried until it succeeds, and refresh.  Msgn stays as it is.
Acquire(p) ==
    /\ pc[p] = "lock" /\ holder = NoProc
    /\ holder' = p
    /\ pc' = [pc EXCEPT ![p] = "refresh"]
    /\ UNCHANGED <<files, recycle, islocked, data, op>>

Refresh(p) == pc[p] = "refresh" /\ ReadBase(p, "index")

RefreshIndex(p) ==
    /\ pc[p] = "index"
    /\ data' = [data EXCEPT ![p].idx = Index(p)]
    /\ islocked' = [islocked EXCEPT ![p] = (op[p].mode = "lock")]
    /\ pc' = [pc EXCEPT ![p] = IF op[p].mode = "lock" THEN "held" ELSE "busy"]
    /\ UNCHANGED <<files, holder, recycle, op>>

\* Under Area::Lock messages are saved and deleted without locking again.  Its
\* loops (copying, importing, deleting) never call update_timesread, which would
\* unlock: the reader, the marking menu and catching up call that.
CallHeld(p) ==
    /\ pc[p] = "held"
    /\ \E mode \in Calls \ {"lock", "timesread"} : Op(p, mode)
    /\ pc' = [pc EXCEPT ![p] = "busy"]
    /\ UNCHANGED <<files, holder, recycle, islocked, data>>

\* Area::Unlock.
AreaUnlock(p) ==
    /\ pc[p] = "held"
    /\ pc' = [pc EXCEPT ![p] = "unlock"]
    /\ UNCHANGED <<files, holder, recycle, islocked, data, op>>

-----------------------------------------------------------------------------
View(p) == [frm |-> frm, base |-> data[p].base, idx |-> data[p].idx,
            msgn |-> data[p].msgn]

\* The frame an index entry names; past the end of the index, of whatever
\* entry the memory held.
Offsets(p, reln) ==
    IF reln \in DOMAIN data[p].idx THEN {data[p].idx[reln].offset} ELSE DOMAIN frm

\* A call leaves the view v and unlocks, unless Area::Lock is in effect.
Leave(p, v, next) ==
    /\ frm' = v.frm
    /\ data' = [data EXCEPT ![p] = [base |-> v.base, idx |-> v.idx, msgn |-> v.msgn]]
    /\ pc' = [pc EXCEPT ![p] = next]
    /\ op' = IF next = "busy" THEN op ELSE [op EXCEPT ![p] = NoOp]
    /\ UNCHANGED <<sqb, sqi, holder, recycle, islocked>>
After(p) == IF islocked[p] THEN "held" ELSE "unlock"

\* Is there a maxmsgs limit that leaves no room for one more message?
Full(p) ==
    /\ data[p].base.maxmsgs # 0
    /\ data[p].base.maxmsgs <= data[p].base.totalmsgs

\* save_message of a new message first deletes the oldest of the messages not
\* protected, while there is no room ...
Purge(p) ==
    /\ pc[p] = "busy" /\ op[p].mode = "new" /\ Full(p)
    /\ Leave(p, delete_msg(View(p), data[p].base.protmsgs + 1), "busy")

\* Mutant: one message too many is let in.
Room_Late(p) ==
    /\ op[p].mode = "new"
    /\ data[p].base.maxmsgs # 0 => data[p].base.totalmsgs <= data[p].base.maxmsgs

\* ... and goes on when there is.
Room(p) == op[p].mode = "new" /\ ~Full(p)

\* A message is saved if the refreshed index still has it, under the relative
\* number Msgn has for it.
Exists(p)  == /\ op[p].mode \in {"hdr", "txt"}
              /\ find_msgn(data[p].idx, op[p].msg.msgno) # 0
Relno(p)   == ToReln(data[p].msgn, op[p].msg.msgno)

SaveHdr(p) ==
    /\ pc[p] = "busy" /\ op[p].mode = "hdr" /\ Exists(p)
    /\ \E at \in Offsets(p, Relno(p)) :
         Leave(p, SaveHeader(View(p), at, op[p].msg), After(p))

\* A text that fits goes into the message's frame ...
Rewrite(p) ==
    /\ pc[p] = "busy" /\ op[p].mode = "txt" /\ Exists(p)
    /\ \E at \in Offsets(p, Relno(p)) :
         /\ read_frm(frm, at).length >= op[p].size
         /\ Leave(p, SaveInPlace(View(p), Relno(p), at, op[p].msg, op[p].size), After(p))

\* ... for another one, and for a new message, a frame is taken, first out of
\* the free chain ...
Taken(p, old, t) ==
    /\ frm' = t.v.frm
    /\ data' = [data EXCEPT ![p].base = t.v.base]
    /\ op' = [op EXCEPT ![p] = [@ EXCEPT !.old = old, !.oldfr = read_frm(frm, old),
                                        !.at = t.at, !.fr = t.fr]]
    /\ pc' = [pc EXCEPT ![p] = "place"]
    /\ UNCHANGED <<sqb, sqi, holder, recycle, islocked>>

Take(p) ==
    /\ pc[p] = "busy"
    /\ \/ Room(p) /\ Taken(p, SQFRAME_NULL, TakeFrame(View(p), op[p].size, recycle))
       \/ /\ Exists(p) /\ op[p].mode = "txt"
          /\ \E at \in Offsets(p, Relno(p)) :
               /\ read_frm(frm, at).length < op[p].size
               /\ Taken(p, at, TakeFrame(View(p), op[p].size, recycle))

\* ... and then filled and put into the chain of the messages.
Place(p) ==
    /\ pc[p] = "place"
    /\ LET o == op[p]
       IN  Leave(p, IF o.mode = "new"
                    THEN SaveNew(View(p), o.at, o.fr,
                                 [o.msg EXCEPT !.msgno = data[p].base.nextmsgno], o.size)
                    ELSE SaveMoved(View(p), Relno(p), o.old, o.oldfr, o.at, o.fr,
                                   o.msg, o.size),
                 After(p))

\* One it does not have any more is not saved: Msgn is scanned again.
SaveGone(p) ==
    /\ pc[p] = "busy" /\ op[p].mode \in {"hdr", "txt"}
    /\ find_msgn(data[p].idx, op[p].msg.msgno) = 0
    /\ Leave(p, [View(p) EXCEPT !.msgn = Scan(data[p].idx)], After(p))

\* del_msg, under the relative number Msgn has.  Past the end of the index
\* the move of the entries behind it ends the program.
Delete(p) ==
    /\ pc[p] = "busy" /\ op[p].mode = "del"
    /\ LET reln == ToReln(data[p].msgn, op[p].msg.msgno)
       IN  /\ reln \in DOMAIN data[p].idx
           /\ Leave(p, delete_msg(View(p), reln), After(p))

DeleteWild(p) ==
    /\ pc[p] = "busy" /\ op[p].mode = "del"
    /\ LET reln == ToReln(data[p].msgn, op[p].msg.msgno)
       IN  /\ reln \notin DOMAIN data[p].idx
           /\ \E at \in Offsets(p, reln) :
                frm' = Unchain(View(p), at).frm
    /\ pc' = [pc EXCEPT ![p] = "closed"]
    /\ holder' = NoProc
    /\ islocked' = [islocked EXCEPT ![p] = FALSE]
    /\ data' = [data EXCEPT ![p] = NoData]
    /\ op' = [op EXCEPT ![p] = NoOp]
    /\ UNCHANGED <<sqb, sqi, recycle>>

\* update_timesread puts the header back as it read it, but for MSGSEEN,
\* which is left out.
UpdateTimesread(p) ==
    /\ pc[p] = "busy" /\ op[p].mode = "timesread"
    /\ Leave(p, View(p), "unlock")

\* unlock: the lock is let go first, and what it protected written after that.
Unlock(p) ==
    /\ pc[p] = "unlock"
    /\ holder' = NoProc
    /\ pc' = [pc EXCEPT ![p] = "writebase"]
    /\ UNCHANGED <<files, recycle, islocked, data, op>>

WriteBase(p) ==
    /\ pc[p] = "writebase"
    /\ sqb' = data[p].base
    /\ pc' = [pc EXCEPT ![p] = "writeindex"]
    /\ UNCHANGED <<frm, sqi, holder, recycle, islocked, data, op>>

\* The index is written, and the file cut to its length.
WriteIndex(p) ==
    /\ pc[p] = "writeindex"
    /\ sqi' = SubSeq(data[p].idx, 1, data[p].base.totalmsgs)
    /\ islocked' = [islocked EXCEPT ![p] = FALSE]
    /\ pc' = [pc EXCEPT ![p] = "idle"]
    /\ UNCHANGED <<frm, sqb, holder, recycle, data, op>>

\* The program is killed, and may be started again.
Crash(p) ==
    /\ p \in MayCrash /\ pc[p] # "closed"
    /\ pc' = [pc EXCEPT ![p] = "closed"]
    /\ holder' = IF holder = p THEN NoProc ELSE holder
    /\ islocked' = [islocked EXCEPT ![p] = FALSE]
    /\ data' = [data EXCEPT ![p] = NoData]
    /\ op' = [op EXCEPT ![p] = NoOp]
    /\ UNCHANGED <<files, recycle>>

Step(p) ==
    \/ Open(p) \/ OpenScan(p) \/ Close(p) \/ Call(p) \/ CallHeld(p)
    \/ Acquire(p) \/ Refresh(p) \/ RefreshIndex(p) \/ AreaUnlock(p)
    \/ Purge(p) \/ SaveHdr(p) \/ Rewrite(p) \/ Take(p) \/ Place(p)
    \/ SaveGone(p) \/ Delete(p) \/ DeleteWild(p) \/ UpdateTimesread(p)
    \/ Unlock(p) \/ WriteBase(p) \/ WriteIndex(p) \/ Crash(p)

Next == \E p \in Proc : Step(p)

Spec == Init /\ [][Next]_vars
-----------------------------------------------------------------------------
Messages == [msgno : Nat, by : Proc \cup {"nobody"}]
Frames   == [type : {"normal", "free"}, next : Nat, prev : Nat, length : Nat,
             totsize : Nat, hdr : Messages, txt : Messages]
Bases    == [totalmsgs : Nat, highestmsg : Nat, protmsgs : Nat, nextmsgno : Nat,
             firstframe : Nat, lastframe : Nat, firstfreeframe : Nat,
             lastfreeframe : Nat, endframe : Nat, maxmsgs : Nat]
Entries  == [offset : Nat, msgno : Nat]
Pcs      == {"closed", "opening", "idle", "lock", "refresh", "index", "held",
             "busy", "place", "unlock", "writebase", "writeindex"}

TypeOK ==
    /\ DOMAIN frm \subseteq Nat /\ \A o \in DOMAIN frm : frm[o] \in Frames
    /\ sqb \in Bases /\ sqi \in Seq(Entries)
    /\ holder \in Proc \cup {NoProc}
    /\ recycle \in Recycles
    /\ pc \in [Proc -> Pcs]
    /\ islocked \in [Proc -> BOOLEAN]
    /\ \A p \in Proc : /\ data[p].base \in Bases
                        /\ data[p].idx \in Seq(Entries)
                        /\ pc[p] \notin {"opening", "index"} =>
                              Len(data[p].idx) = data[p].base.totalmsgs
    /\ op \in [Proc -> [mode : AllCalls \cup {"none"}, msg : Messages, size : Nat,
                        old : Nat, oldfr : Frames, at : Nat, fr : Frames]]

\* Two programs are never between ::lock and ::unlock, or between Area::Lock
\* and Area::Unlock, at once; no way out of a call, early returns and the end
\* of the program included, leaves the base locked; and the area counts as
\* locked only while it is.
InLock(p) == pc[p] \in {"refresh", "index", "held", "busy", "place", "unlock"}
LockHeld ==
    \A p \in Proc : /\ holder = p <=> InLock(p)
                    /\ islocked[p] => InLock(p) \/ pc[p] \in {"writebase", "writeindex"}

\* A program's copies are about the base, and neither still to be read nor in
\* the middle of a change.
InUse(p) == pc[p] \notin {"closed", "opening", "refresh", "index", "place"}

\* The frames at the offsets of a sequence, and no others, are chained in its
\* order, forwards and backwards, between first and last.
Chained(offsets, first, last) ==
    LET at(i) == IF i \in DOMAIN offsets THEN offsets[i] ELSE SQFRAME_NULL
    IN  /\ first = at(1) /\ last = at(Len(offsets))
        /\ \A i \in DOMAIN offsets :
              /\ frm[offsets[i]].prev = at(i - 1)
              /\ frm[offsets[i]].next = at(i + 1)

Offset(p) == [i \in DOMAIN data[p].idx |-> data[p].idx[i].offset]

\* The chain of the messages' frames is the index, which Squish utilities
\* rebuild from it.
MessageChain ==
    \A p \in Proc : InUse(p) =>
        Chained(Offset(p), data[p].base.firstframe, data[p].base.lastframe)

\* The offsets along the chain of free frames, as far as there are frames, but
\* not more of them than those and one.
Free(p) ==
    LET along[n \in Nat] == IF n = 0 THEN data[p].base.firstfreeframe
                            ELSE read_frm(frm, along[n - 1]).next
        steps == {n \in 0..Cardinality(DOMAIN frm) :
                     \A m \in 0..n : along[m] \in DOMAIN frm}
    IN  [i \in 1..Cardinality(steps) |-> along[i - 1]]

\* The chain of the free frames runs forwards and backwards through free
\* frames only, from firstfreeframe to lastfreeframe.
FreeChain ==
    \A p \in Proc : InUse(p) =>
        /\ Chained(Free(p), data[p].base.firstfreeframe, data[p].base.lastfreeframe)
        /\ \A i \in DOMAIN Free(p) : frm[Free(p)[i]].type = "free"

\* No two frames of the chains overlap, and no part of the file is lost to
\* both: every byte behind the base record is in just one of their frames.
Tiled ==
    \A p \in Proc : InUse(p) =>
        LET frames    == Range(Offset(p)) \cup Range(Free(p))
            extent(o) == o..(o + FrmSize + frm[o].length - 1)
            file      == BaseSize..(data[p].base.endframe - 1)
        IN  /\ Range(Offset(p)) \cap Range(Free(p)) = {}
            /\ \A o \in frames : extent(o) \subseteq file
            /\ \A x \in file : Cardinality({o \in frames : x \in extent(o)}) = 1

\* Under the number of an index entry load_message finds a normal frame with
\* the header and the text of the message of that number, and all of it.
Readable ==
    \A p \in Proc : InUse(p) =>
        \A i \in DOMAIN data[p].idx :
            LET fr == frm[data[p].idx[i].offset]
            IN  /\ fr.type = "normal" /\ fr.totsize <= fr.length
                /\ fr.hdr = fr.txt /\ fr.hdr.msgno = data[p].idx[i].msgno

\* Msgn is the index, and bisecting the index finds every number in it and no
\* other: what one program posts and deletes keeps the numbers rising.
IndexFound ==
    \A p \in Proc : InUse(p) =>
        /\ data[p].msgn = Numbers(data[p].idx)
        /\ \A n \in 0..data[p].base.nextmsgno :
              find_msgn(data[p].idx, n) = ToReln(Numbers(data[p].idx), n)

\* A post leaves the area within its limit, even one that was above it before
\* (manuals/gold_usr.txt, Squish: "it may only contain a maximum of so-and-so
\* many msgs").
KeepsLimit ==
    \A p \in Proc : pc[p] = "place" /\ op[p].mode = "new" /\ MaxMsgs # 0 =>
        data'[p].base.totalmsgs <= MaxMsgs

\* ... and never at the cost of the first protmsgs messages ("Skip killing
\* first x msgs in area", gmosqsh.h).
KeepsProtected ==
    \A p \in Proc : pc[p] = "busy" /\ op[p].mode = "new" =>
        \A i \in 1..data[p].base.protmsgs : i \in DOMAIN data[p].idx =>
            i \in DOMAIN data'[p].idx /\ data'[p].idx[i] = data[p].idx[i]

\* An area with a limit stops growing: with messages of one size, it is never
\* larger than the messages it may hold need.
StopsGrowing ==
    \A p \in Proc : InUse(p) /\ MaxMsgs # 0 /\ Sizes = {MinSize} =>
        data[p].base.endframe <= At((IF Posted > MaxMsgs THEN Posted ELSE MaxMsgs) + 1)

\* A frame taken for a message is free (gmosqsh4.cpp, save_message: "Locate a
\* free frame, if possible"): the text of a message that is not deleted is
\* never overwritten with another's.
TextsKept ==
    [][\A o \in DOMAIN frm : frm[o].type = "normal" =>
        o \in DOMAIN frm' /\ frm'[o].txt = frm[o].txt]_vars

\* Saving a message asks whether it still exists first (save_message: "If not
\* new, does the message still exist?"), and so changes that message alone:
\* no header is put over that of another message.
HeadersKept ==
    [][\A o \in DOMAIN frm : frm[o].type = "normal" =>
        o \in DOMAIN frm' /\ frm'[o].hdr = frm[o].hdr]_vars

\* What the program that uses the base has in its hands, or would find there.
Idx  == IF \E p \in Proc : pc[p] \notin {"closed", "opening"}
        THEN data[CHOOSE p \in Proc : pc[p] \notin {"closed", "opening"}].idx
        ELSE sqi
Highest == IF \E p \in Proc : pc[p] \notin {"closed", "opening"}
           THEN data[CHOOSE p \in Proc : pc[p] \notin {"closed", "opening"}].base.nextmsgno - 1
           ELSE sqb.nextmsgno - 1

List == INSTANCE MsgList WITH
            list   <- [i \in DOMAIN Idx |-> frm[Idx[i].offset].txt],
            last   <- Highest,
            Author <- Proc \cup {"nobody"}

\* For one program alone, the frames implement a list of messages: however
\* frames are split, merged and moved, each message stays where it is in the
\* list and keeps its text, and a new one comes last.
ListImplemented == List!Spec
=============================================================================

------------------------------- MODULE JamBase -------------------------------
(***************************************************************************)
(* goldlib/gmb3/gmojamm*.cpp: a JAM message base shared by several         *)
(* programs, each running this driver.  The base is three files:           *)
(*                                                                         *)
(*   .jhr  the header info record (info), then the message headers, in     *)
(*         the order they were written: jhr[s] is the header at the s-th   *)
(*         offset.  The file only grows;                                   *)
(*   .jdx  the index: jdx[n] is the slot of message n's header, Gone       *)
(*         (0xFFFFFFFF in the code) once it was deleted for good;          *)
(*   .jdt  the texts: jdt[t] is the message a text was written for.        *)
(*                                                                         *)
(* Writers hold the lock on byte 0 of the .jhr; readers take no lock.      *)
(* Every read or write of a file is a step of its own.  Message numbers    *)
(* start at basemsgnum = 1.  modcounter, the highwater mark and the fields *)
(* of a header nothing here depends on are left out.                       *)
(***************************************************************************)
EXTENDS Integers, Sequences, FiniteSets

CONSTANTS Proc,         \* the programs
          NoProc,
          HardDelete,   \* JAMHARDDELETE: wide->harddelete
          Blank,        \* the base's files have just been created
          Calls,        \* the calls the programs make
          MayCrash,     \* the programs that may be killed
          MaxMsg,       \* bound on the messages posted
          MaxHdr,       \* bound on the headers, and on the texts, written
          MaxActive     \* bound on activemsgs, which may drift

ASSUME ProcAssumption   == NoProc \notin Proc /\ MayCrash \subseteq Proc
ASSUME OptionAssumption == HardDelete \in BOOLEAN /\ Blank \in BOOLEAN
ASSUME BoundAssumption  == MaxMsg \in Nat /\ MaxHdr \in Nat /\ MaxActive \in Nat

Gone  == 0
NoMsg == 0

VARIABLES jhr, jdx, jdt,   \* the files
          info,            \* JamHdrInfo at the start of the .jhr
          holder,          \* who has locked byte 0 of the .jhr
          wild,            \* a header was written at offset 0xFFFFFFFF
          pc,              \* where each program is in the driver
          islocked,        \* data->islocked while Area::Lock is in effect
          hdrinfo,         \* data->hdrinfo, its copy of info
          msg,             \* the message it has loaded
          op               \* the locals of save_message and load_message

files == <<jhr, jdx, jdt, info>>
vars  == <<jhr, jdx, jdt, info, holder, wild, pc, islocked, hdrinfo, msg, op>>

\* A header: its message number, the DELETED attribute, subfieldlen, the
\* length of the subfields really stored behind it, and where the text is.
Header(no, del, len, stored, text) ==
    [no |-> no, del |-> del, len |-> len, stored |-> stored, text |-> text]

SubLen == {1, 2}    \* two subfield lengths that differ
NoCopy == Header(NoMsg, FALSE, 1, 1, 0)
NoOp   == [mode |-> "none", hdr |-> NoCopy, slot |-> 0, change |-> 0]

\* Write at a position: over what is there, or at the end of the file.
Put(file, at, what) ==
    IF at \in DOMAIN file THEN [file EXCEPT ![at] = what] ELSE Append(file, what)

\* Where a program goes on after a call into the driver.
Back(p) == IF islocked[p] THEN "held" ELSE "idle"

Init ==
    /\ jhr = IF Blank THEN <<>> ELSE <<Header(1, FALSE, 1, 1, 1)>>
    /\ jdx = IF Blank THEN <<>> ELSE <<1>>
    /\ jdt = IF Blank THEN <<>> ELSE <<1>>
    /\ info = [signed |-> ~Blank, activemsgs |-> IF Blank THEN 0 ELSE 1]
    /\ holder = NoProc
    /\ wild = FALSE
    /\ pc = [p \in Proc |-> "closed"]
    /\ islocked = [p \in Proc |-> FALSE]
    /\ hdrinfo = [p \in Proc |-> [signed |-> FALSE, activemsgs |-> 0]]
    /\ msg = [p \in Proc |-> NoCopy]
    /\ op = [p \in Proc |-> NoOp]

-----------------------------------------------------------------------------
\* open_area reads the header info without the lock ...
OpenArea(p) ==
    /\ pc[p] = "closed"
    /\ hdrinfo' = [hdrinfo EXCEPT ![p] = info]
    /\ pc' = [pc EXCEPT ![p] = IF info.signed THEN "idle" ELSE "blank"]
    /\ UNCHANGED <<files, holder, wild, islocked, msg, op>>

\* ... and writes a new one if there was no signature.
InitHdrInfo(p) ==
    /\ pc[p] = "blank"
    /\ hdrinfo' = [hdrinfo EXCEPT ![p].signed = TRUE]
    /\ info' = hdrinfo'[p]
    /\ pc' = [pc EXCEPT ![p] = "idle"]
    /\ UNCHANGED <<jhr, jdx, jdt, holder, wild, islocked, msg, op>>

\* load_message: the index entry; a message deleted for good is not loaded.
LoadIndex(p) ==
    /\ pc[p] \in {"idle", "held"}
    /\ \E n \in DOMAIN jdx :
        /\ jdx[n] # Gone
        /\ op' = [op EXCEPT ![p].slot = jdx[n]]
    /\ pc' = [pc EXCEPT ![p] = "loading"]
    /\ UNCHANGED <<files, holder, wild, islocked, hdrinfo, msg>>

\* Then the header at the offset found there.
LoadHeader(p) ==
    /\ pc[p] = "loading"
    /\ msg' = [msg EXCEPT ![p] = jhr[op[p].slot]]
    /\ op' = [op EXCEPT ![p] = NoOp]
    /\ pc' = [pc EXCEPT ![p] = Back(p)]
    /\ UNCHANGED <<files, holder, wild, islocked, hdrinfo>>

-----------------------------------------------------------------------------
\* The calls a program makes: post, save the header, save header and text,
\* delete, update_timesread, and close and suspend, which save the lastread
\* and so write the header info.  Saving and deleting are about the message
\* loaded.
Modes == {"new", "hdr", "txt", "del", "timesread", "close", "suspend"}
ASSUME CallAssumption == Calls \subseteq Modes

MayCall(p, mode) ==
    /\ mode \in Calls
    /\ mode \in {"hdr", "txt", "del", "timesread"} => msg[p].no # NoMsg
    /\ mode = "new" => Len(jdx) < MaxMsg
    /\ mode \in {"new", "hdr", "txt", "del"} =>
        Len(jhr) < MaxHdr /\ info.activemsgs \in 0..MaxActive
    /\ mode \in {"new", "txt"} => Len(jdt) < MaxHdr

\* Mutant: goes on although another program has the lock.
Acquire_NotRetried(p, mode) ==
    /\ pc[p] = "idle"
    /\ holder' = p
    /\ op' = [op EXCEPT ![p] = [NoOp EXCEPT !.mode = mode]]
    /\ pc' = [pc EXCEPT ![p] = "refresh"]
    /\ UNCHANGED <<files, wild, islocked, hdrinfo, msg>>

\* JamArea::lock: ::lock, retried until it succeeds ...
Acquire(p, mode) ==
    /\ pc[p] = "idle"
    /\ holder = NoProc
    /\ holder' = p
    /\ op' = [op EXCEPT ![p] = [NoOp EXCEPT !.mode = mode]]
    /\ pc' = [pc EXCEPT ![p] = "refresh"]
    /\ UNCHANGED <<files, wild, islocked, hdrinfo, msg>>

Call(p)     == \E mode \in Modes : MayCall(p, mode) /\ Acquire(p, mode)
AreaLock(p) == Acquire(p, "lock")

\* Mutant: goes on with the header info read when the base was opened.
Refresh_Stale(p) ==
    /\ pc[p] = "refresh"
    /\ islocked' = [islocked EXCEPT ![p] = (op[p].mode = "lock")]
    /\ pc' = [pc EXCEPT ![p] = CASE op[p].mode = "lock"      -> "held"
                                 [] op[p].mode = "timesread" -> "timesread"
                                 [] op[p].mode \in {"close", "suspend"} -> "finish"
                                 [] OTHER                    -> "build"]
    /\ UNCHANGED <<files, holder, wild, hdrinfo, msg, op>>

\* ... then a fresh copy of the header info.
Refresh(p) ==
    /\ pc[p] = "refresh"
    /\ hdrinfo' = [hdrinfo EXCEPT ![p] = info]
    /\ islocked' = [islocked EXCEPT ![p] = (op[p].mode = "lock")]
    /\ pc' = [pc EXCEPT ![p] = CASE op[p].mode = "lock"      -> "held"
                                 [] op[p].mode = "timesread" -> "timesread"
                                 [] op[p].mode \in {"close", "suspend"} -> "finish"
                                 [] OTHER                    -> "build"]
    /\ UNCHANGED <<files, holder, wild, msg, op>>

\* Under Area::Lock further messages are saved without locking again.
CallHeld(p) ==
    /\ pc[p] = "held"
    /\ \E mode \in {"new", "hdr", "txt", "del"} :
        /\ MayCall(p, mode)
        /\ op' = [op EXCEPT ![p] = [NoOp EXCEPT !.mode = mode]]
    /\ pc' = [pc EXCEPT ![p] = "build"]
    /\ UNCHANGED <<files, holder, wild, islocked, hdrinfo, msg>>

\* Mutant: the area goes on as if it were locked.
AreaUnlock_KeepsFlag(p) ==
    /\ pc[p] = "held"
    /\ holder' = NoProc
    /\ pc' = [pc EXCEPT ![p] = "idle"]
    /\ UNCHANGED <<files, wild, islocked, hdrinfo, msg, op>>

\* Area::Unlock: JamArea::unlock alone.
AreaUnlock(p) ==
    /\ pc[p] = "held"
    /\ holder' = NoProc
    /\ islocked' = [islocked EXCEPT ![p] = FALSE]
    /\ pc' = [pc EXCEPT ![p] = "idle"]
    /\ UNCHANGED <<files, wild, hdrinfo, msg, op>>
-----------------------------------------------------------------------------
\* Mutants: the new header, or the new text, goes over the last one.
BuildNew_AtHeader(p, slot, text) ==
    \E len \in SubLen :
        /\ op' = [op EXCEPT ![p] =
                    [mode   |-> "new",
                     hdr    |-> Header(Len(jdx) + 1, FALSE, len, len, text),
                     slot   |-> slot,
                     change |-> 1]]
        /\ pc' = [pc EXCEPT ![p] = "header"]
        /\ UNCHANGED jhr
BuildNew_OverHeader(p) == BuildNew_AtHeader(p, Len(jhr), Len(jdt) + 1)
BuildNew_OverText(p)   == BuildNew_AtHeader(p, Len(jhr) + 1, Len(jdt))

\* save_message.  A new message gets the number after the last index entry,
\* a header at the end of the .jhr and a text at the end of the .jdt.
BuildNew(p) ==
    \E len \in SubLen :
        /\ op' = [op EXCEPT ![p] =
                    [mode   |-> "new",
                     hdr    |-> Header(Len(jdx) + 1, FALSE, len, len, Len(jdt) + 1),
                     slot   |-> Len(jhr) + 1,
                     change |-> 1]]
        /\ pc' = [pc EXCEPT ![p] = "header"]
        /\ UNCHANGED jhr

\* Mutant: returns without unlocking.
BuildGone_Returns(p) ==
    /\ jdx[msg[p].no] = Gone
    /\ pc' = [pc EXCEPT ![p] = Back(p)]
    /\ UNCHANGED <<jhr, op>>

\* Saving a message deleted for good meanwhile only rescans the base.
BuildGone(p) ==
    /\ jdx[msg[p].no] = Gone
    /\ pc' = [pc EXCEPT ![p] = "finish"]
    /\ UNCHANGED <<jhr, op>>

\* Mutant: a new text is saved without its subfields.
Stored_HeaderOnly(mode, moved, len, old) == IF moved THEN 0 ELSE old
\* Mutant: the new subfields are added to those stored before.
Stored_Added(mode, moved, len, old) == IF mode = "txt" THEN old + len ELSE old

\* The length of the subfields stored behind a rebuilt header.
Stored(mode, moved, len, old) ==
    CASE mode = "txt"             -> len
      [] mode # "txt" /\ moved    -> 0
      [] mode # "txt" /\ ~moved   -> old

\* What saving a message adds to activemsgs: its header on file and the one
\* in memory may disagree on whether it is deleted.
Change(mode, olddel, newdel) ==
    CASE mode = "del" /\ ~olddel             -> -1
      [] mode # "del" /\ olddel /\ ~newdel   -> 1
      [] OTHER                               -> 0

\* Any other header is built from the message in memory, whatever the files
\* now say.  If its subfields have another length than those on file, the new
\* header goes to the end; without a new text none of them are written there.
Rebuilt(p, len, text) ==
    LET m     == msg[p]
        mode  == op[p].mode
        at    == jdx[m.no]
        moved == jhr[at].len # len
    IN  [mode   |-> mode,
         slot   |-> IF moved THEN Len(jhr) + 1 ELSE at,
         hdr    |-> Header(m.no, m.del \/ mode = "del", len,
                           Stored(mode, moved, len, jhr[at].stored), text),
         change |-> Change(mode, jhr[at].del, m.del)]

\* ... and the old one is marked deleted.
BuildUpdate(p) ==
    LET m  == msg[p]
        at == jdx[m.no]
    IN  /\ at # Gone
        /\ \E len  \in IF op[p].mode = "txt" THEN SubLen ELSE {m.len},
              text \in IF op[p].mode = "txt" THEN {m.text, Len(jdt) + 1}
                                             ELSE {m.text} :
            /\ jhr' = IF jhr[at].len = len THEN jhr ELSE [jhr EXCEPT ![at].del = TRUE]
            /\ op' = [op EXCEPT ![p] = Rebuilt(p, len, text)]
        /\ pc' = [pc EXCEPT ![p] = "header"]

Build(p) ==
    /\ pc[p] = "build"
    /\ IF op[p].mode = "new" THEN BuildNew(p) ELSE BuildGone(p) \/ BuildUpdate(p)
    /\ UNCHANGED <<jdx, jdt, info, holder, wild, islocked, hdrinfo, msg>>

WriteHeader(p) ==
    /\ pc[p] = "header"
    /\ jhr' = Put(jhr, op[p].slot, op[p].hdr)
    /\ pc' = [pc EXCEPT ![p] = "index"]
    /\ UNCHANGED <<jdx, jdt, info, holder, wild, islocked, hdrinfo, msg, op>>

\* Mutant: appends an index entry for a message that has one.
WriteIndex_Appends(p) ==
    /\ pc[p] = "index"
    /\ jdx' = Append(jdx, op[p].slot)
    /\ pc' = [pc EXCEPT ![p] = "info"]
    /\ UNCHANGED <<jhr, jdt, info, holder, wild, islocked, hdrinfo, msg, op>>

WriteIndex(p) ==
    /\ pc[p] = "index"
    /\ jdx' = Put(jdx, op[p].hdr.no,
                  IF op[p].mode = "del" /\ HardDelete THEN Gone ELSE op[p].slot)
    /\ pc' = [pc EXCEPT ![p] = "info"]
    /\ UNCHANGED <<jhr, jdt, info, holder, wild, islocked, hdrinfo, msg, op>>

\* Mutant: counts on file only, not in the copy that Finish writes.
WriteInfo_FileOnly(p) ==
    /\ pc[p] = "info"
    /\ info' = [hdrinfo[p] EXCEPT !.activemsgs = @ + op[p].change]
    /\ pc' = [pc EXCEPT ![p] =
                IF op[p].mode \in {"new", "txt"} THEN "text" ELSE "finish"]
    /\ UNCHANGED <<jhr, jdx, jdt, holder, wild, islocked, hdrinfo, msg, op>>

WriteInfo(p) ==
    /\ pc[p] = "info"
    /\ hdrinfo' = [hdrinfo EXCEPT ![p].activemsgs = @ + op[p].change]
    /\ info' = hdrinfo'[p]
    /\ pc' = [pc EXCEPT ![p] =
                IF op[p].mode \in {"new", "txt"} THEN "text" ELSE "finish"]
    /\ UNCHANGED <<jhr, jdx, jdt, holder, wild, islocked, msg, op>>

WriteText(p) ==
    /\ pc[p] = "text"
    /\ jdt' = Put(jdt, op[p].hdr.text, op[p].hdr.no)
    /\ pc' = [pc EXCEPT ![p] = "finish"]
    /\ UNCHANGED <<jhr, jdx, info, holder, wild, islocked, hdrinfo, msg, op>>

\* update_timesread writes the header back without asking whether there is
\* still one.
UpdateTimesread(p) ==
    /\ pc[p] = "timesread"
    /\ wild' = (wild \/ jdx[msg[p].no] = Gone)
    /\ pc' = [pc EXCEPT ![p] = "finish"]
    /\ UNCHANGED <<files, holder, islocked, hdrinfo, msg, op>>

\* The header info is written once more, unless the caller holds the lock
\* (the old copy, in close and suspend, with another modcounter).  A message
\* just posted, rewritten or deleted is loaded again before use.
Finish(p) ==
    /\ pc[p] = "finish"
    /\ info' = IF islocked[p] THEN info ELSE hdrinfo[p]
    /\ pc' = [pc EXCEPT ![p] = CASE islocked[p]                           -> "held"
                                 [] ~islocked[p] /\ op[p].mode = "close" -> "closing"
                                 [] OTHER                                 -> "unlock"]
    /\ msg' = IF op[p].mode \in {"new", "txt", "del", "close"}
              THEN [msg EXCEPT ![p] = NoCopy] ELSE msg
    /\ op' = [op EXCEPT ![p] = NoOp]
    /\ UNCHANGED <<jhr, jdx, jdt, holder, wild, islocked, hdrinfo>>

Unlock(p) ==
    /\ pc[p] \in {"unlock", "closing"}
    /\ holder' = NoProc
    /\ pc' = [pc EXCEPT ![p] = IF @ = "closing" THEN "closed" ELSE "idle"]
    /\ UNCHANGED <<files, wild, islocked, hdrinfo, msg, op>>

\* The program is killed, or gives up on the lock (LockErrorExit): the
\* operating system drops its lock, and it may be started again.
Crash(p) ==
    /\ p \in MayCrash /\ pc[p] # "closed"
    /\ pc' = [pc EXCEPT ![p] = "closed"]
    /\ holder' = IF holder = p THEN NoProc ELSE holder
    /\ islocked' = [islocked EXCEPT ![p] = FALSE]
    /\ msg' = [msg EXCEPT ![p] = NoCopy]
    /\ op' = [op EXCEPT ![p] = NoOp]
    /\ UNCHANGED <<files, wild, hdrinfo>>

Run(p) == \/ InitHdrInfo(p) \/ LoadHeader(p) \/ Refresh(p) \/ Build(p)
          \/ WriteHeader(p) \/ WriteIndex(p) \/ WriteInfo(p) \/ WriteText(p)
          \/ UpdateTimesread(p) \/ Finish(p) \/ Unlock(p)

Choose(p) == OpenArea(p) \/ LoadIndex(p) \/ Call(p) \/ AreaLock(p)
             \/ CallHeld(p) \/ AreaUnlock(p)

Step(p) == Run(p) \/ Choose(p) \/ Crash(p)

Next == \E p \in Proc : Step(p)

Spec == Init /\ [][Next]_vars

\* Once called, the driver's code runs on; and a program that keeps the base
\* locked ends its loop over the marked messages.
Fairness == \A p \in Proc : WF_vars(Run(p)) /\ SF_vars(AreaUnlock(p))
FairSpec == Spec /\ Fairness
-----------------------------------------------------------------------------
Busy == {"refresh", "build", "header", "index", "info", "text", "timesread",
         "finish", "unlock", "closing"}

Headers == [no : Nat, del : BOOLEAN, len : SubLen,
            stored : SubLen \cup {0}, text : Nat]
HdrInfo == [signed : BOOLEAN, activemsgs : Int]
Ops     == [mode : Modes \cup {"none", "lock"}, hdr : Headers, slot : Nat,
            change : Int]
Pcs     == Busy \cup {"closed", "blank", "idle", "held", "loading"}

TypeOK ==
    /\ jhr \in Seq(Headers)
    /\ jdx \in Seq(Nat) /\ jdt \in Seq(Nat)
    /\ info \in HdrInfo /\ hdrinfo \in [Proc -> HdrInfo]
    /\ holder \in Proc \cup {NoProc}
    /\ wild \in BOOLEAN
    /\ pc \in [Proc -> Pcs]
    /\ islocked \in [Proc -> BOOLEAN]
    /\ msg \in [Proc -> Headers]
    /\ op \in [Proc -> Ops]

\* A program is inside the lock from ::lock to ::unlock, and all the time
\* between Area::Lock and Area::Unlock.
InLock(p) == pc[p] \in Busy \cup {"held"} \/ islocked[p]

\* Two programs are never inside the lock together, killed ones included.
MutualExclusion == \A p, q \in Proc : InLock(p) /\ InLock(q) => p = q

\* The index finds each message where it says: under number n, a header on
\* file that carries number n.  Index entries are written after their header,
\* so this holds for readers without a lock and after a crash too.
IndexNumbers ==
    \A n \in DOMAIN jdx : jdx[n] # Gone =>
        jdx[n] \in DOMAIN jhr /\ jhr[jdx[n]].no = n

\* Mutual exclusion, as it is kept: a program that is inside the lock holds it, and
\* the area's lock spans only the calls made while it is held.
LockInv ==
    \A p \in Proc :
        /\ holder = p <=> InLock(p)
        /\ islocked[p] => pc[p] \in {"held", "loading", "build", "header",
                                     "index", "info", "text", "finish"}
        /\ pc[p] = "held" => islocked[p]

\* What a program knows between two of its steps: the header it is about to
\* load or has loaded belongs to a message of the index, and the header it is
\* about to write replaces one of the same message, or is added to the file.
LocalInv(p) ==
    /\ pc[p] = "loading" =>
        /\ op[p].slot \in DOMAIN jhr
        /\ jhr[op[p].slot].no \in DOMAIN jdx
    /\ msg[p].no # NoMsg => msg[p].no \in DOMAIN jdx
    /\ pc[p] = "refresh" =>
        (op[p].mode \in {"hdr", "txt", "del", "timesread"} => msg[p].no # NoMsg)
    /\ pc[p] = "refresh" => op[p].mode # "none"
    /\ pc[p] = "build" =>
        /\ op[p].mode \in {"new", "hdr", "txt", "del"}
        /\ op[p].mode # "new" => msg[p].no # NoMsg
    /\ pc[p] = "timesread" => msg[p].no # NoMsg
    /\ pc[p] \in {"header", "index"} =>
        /\ op[p].hdr.no \in 1..(Len(jdx) + 1)
        /\ op[p].slot \in 1..(Len(jhr) + 1)
        /\ op[p].slot \in DOMAIN jhr => jhr[op[p].slot].no = op[p].hdr.no
    /\ pc[p] = "index" => op[p].slot \in DOMAIN jhr

\* The inductive invariant: what the invariants above rest on together.
IInv ==
    /\ TypeOK
    /\ LockInv
    /\ IndexNumbers
    /\ \A p \in Proc : LocalInv(p)

\* A program inside the lock works on the header info that is on file: none
\* of the counters it writes back undoes what another program counted.
HdrinfoFresh ==
    \A p \in Proc : InLock(p) /\ pc[p] # "refresh" => hdrinfo[p] = info

Live == {n \in DOMAIN jdx : jdx[n] # Gone /\ ~jhr[jdx[n]].del}

\* "Number of active (not deleted) msgs" (gmojamm.h, JamHdrInfo): while
\* nobody is writing, activemsgs is the number of messages not deleted.
ActiveMsgs == holder = NoProc => info.activemsgs = Cardinality(Live)

\* Every header is followed by the subfields (names, subject, kludges) its
\* subfieldlen announces, which load_message reads from there.
SubfieldsStored ==
    \A n \in DOMAIN jdx : jdx[n] # Gone =>
        jhr[jdx[n]].stored = jhr[jdx[n]].len

\* While nobody is writing, the text a live header points to was written for
\* that message.
TextOwned ==
    holder = NoProc =>
        \A n \in Live : /\ jhr[jdx[n]].text \in DOMAIN jdt
                        /\ jdt[jhr[jdx[n]].text] = n

\* No header is written through the 0xFFFFFFFF of a message deleted for good.
NoWildWrite == ~wild

\* What is on file stays the header of the message it was written for: a new
\* or moved header never takes the place of another message's.
KeepsHeaders == \A s \in DOMAIN jhr : s \in DOMAIN jhr' /\ jhr'[s].no = jhr[s].no
HeadersKept  == [][KeepsHeaders]_vars

\* The base does not stay locked.
LockReleased == \A p \in Proc : holder = p ~> holder # p
=============================================================================

------------------------------ MODULE HudsBase ------------------------------
(***************************************************************************)
(* goldlib/gmb3/gmohuds*.cpp: a Hudson or GoldBase message base.  One set  *)
(* of files holds the messages of all boards: headers, an index of the     *)
(* same length, the counts of msginfo, and the lastread pointers of each   *)
(* user.  A program keeps copies of the index and of msginfo, which lock   *)
(* refreshes, and an area is one board of it.  A byte of msginfo is locked *)
(* around each call that writes, or by Area::Lock around several.          *)
(*                                                                         *)
(* Headers, index, msginfo and the scanning files for mailers (netmail and *)
(* echomail.bbs) are written one after another, each in a step of its own. *)
(* Texts, the lowest number and the total, and links are left out.         *)
(***************************************************************************)
EXTENDS Listing, SequencesExt

CONSTANTS Proc, NoProc,
          NetBoards, EchoBoards, LocalBoards,
          Path, Syspath, Cwd,      \* HUDSONPATH, HUDSONSYSPATH, and where it runs
          FirstMsgs,                     \* the boards of the messages there are at first
          Personal,                \* the messages to the user of any program
          Calls,                   \* the calls the programs make
          MaxHdr                   \* bound on the headers

Boards == NetBoards \cup EchoBoards \cup LocalBoards
Modes  == {"new", "hdr", "del", "timesread", "lock", "suspend", "pm"}
DELETEDMSGNO == 0

\* What the proofs, and every instance, take for granted.
BaseAssumption == NoProc \notin Proc /\ FirstMsgs \in Seq(Boards)

VARIABLES hdr, idx,       \* msghdr and msgidx
          info,           \* msginfo: the highest number, and how many are active
          lastrecs,       \* the lastread file: of each user, of each board
          lists,          \* the scanning files in each directory: header indexes
          holder,         \* who has locked the byte behind msginfo
          islocked,       \* wide->islocked while Area::Lock is in effect
          pc,
          data,           \* a program's copies, its board and its list of numbers
          msg, op,        \* the message it has loaded, and the one it is saving
          seen,           \* what a user has been at or past
          PMrk            \* his personal mail; {0} before the first scan

files == <<hdr, idx, info, lastrecs, lists>>
hvars == <<files, holder, islocked, pc, data, msg, op, seen, PMrk>>

\* Which message it is stands for the rest of the header; uns is NETTRANS in a
\* netmail board and ECHOTRANS in an echo board.
Header(n, b, id, uns) == [msgno |-> n, board |-> b, id |-> id, uns |-> uns]
Entry(n, b) == [msgno |-> n, board |-> b]
NoHeader == Header(0, 0, 0, FALSE)
NoInfo   == [high |-> 0, active |-> [b \in Boards |-> 0]]
NoData   == [idx |-> <<>>, info |-> NoInfo, lastrec |-> [b \in Boards |-> 0],
             board |-> 0, Msgn |-> <<>>, lastread |-> 0]
NoOp     == [mode |-> "none", hdr |-> NoHeader, at |-> 0]

Init ==
    /\ hdr = [i \in DOMAIN FirstMsgs |-> Header(i, FirstMsgs[i], i, FALSE)]
    /\ idx = [i \in DOMAIN FirstMsgs |-> Entry(i, FirstMsgs[i])]
    /\ info = [high   |-> Len(FirstMsgs),
               active |-> [b \in Boards |-> Cardinality({i \in DOMAIN FirstMsgs : FirstMsgs[i] = b})]]
    /\ lastrecs \in [Proc -> [Boards -> 0..Len(FirstMsgs)]]
    /\ lists = [d \in {Path, Syspath, Cwd} |-> [netmail |-> {}, echomail |-> {}]]
    /\ holder = NoProc
    /\ islocked = [p \in Proc |-> FALSE]
    /\ pc = [p \in Proc |-> "closed"]
    /\ data = [p \in Proc |-> NoData]
    /\ msg = [p \in Proc |-> NoHeader]
    /\ op = [p \in Proc |-> NoOp]
    /\ seen = [p \in Proc |-> {i \in DOMAIN FirstMsgs : i <= lastrecs[p][FirstMsgs[i]]}]
    /\ PMrk = [p \in Proc |-> {0}]

-----------------------------------------------------------------------------
\* Writes a record at a place in a file or array, at most one past its end.
Put(seq, i, x) == [j \in 1..(IF i > Len(seq) THEN i ELSE Len(seq)) |->
                        IF j = i THEN x ELSE seq[j]]

\* The numbers of a board, in the order of the index.
Active(index, b) == {i \in DOMAIN index : index[i].board = b /\ index[i].msgno # DELETEDMSGNO}
Numbers(index, b) == Chosen([i \in DOMAIN index |-> index[i].msgno], Active(index, b))

\* Mutant: takes as many numbers as the base has messages.
RawScan_Total(index, inf, b) == SubSeq(Numbers(index, b), 1, inf.active[b] - 1)

\* raw_scan: the numbers of a board, but no more than msginfo counts.
RawScan(index, inf, b) ==
    LET all == Numbers(index, b)
    IN  IF inf.active[b] \in 1..Len(all) THEN SubSeq(all, 1, inf.active[b]) ELSE all

\* The position of a lastread number, in ascending numbers.
Position(numbers, lr) == Cardinality({i \in DOMAIN numbers : numbers[i] <= lr})

\* Mutant: takes the lastread number itself for personal mail's.
Found_Next(numbers, lr) ==
    LET at == 1 + Cardinality({i \in DOMAIN numbers : numbers[i] <= lr})
    IN  IF at > Len(numbers) THEN 0 ELSE numbers[at]

\* lastreadfound: the first number from lastread on, but the second of all if
\* lastread is before the first.
Found(numbers, lr) ==
    LET at == 1 + Cardinality({i \in DOMAIN numbers : numbers[i] < lr})
    IN  CASE at > Len(numbers)                                        -> 0
          [] at = 1 /\ Len(numbers) > 1 /\ numbers[1] # lr            -> numbers[2]
          [] OTHER                                                    -> numbers[at]

\* Mutant: only the index is read again.
Refresh_IndexOnly(p) == [data[p] EXCEPT !.idx = idx]
\* refresh: the copies are read again.  The list of numbers stays as it is.
Refresh(p) == [data[p] EXCEPT !.idx = idx, !.info = info, !.lastrec = lastrecs[p]]

\* get_hdr_idx finds the first; 0 if the number is not there, when the program
\* ends.
First(index, n) == {i \in DOMAIN index : /\ index[i].msgno = n
                                        /\ \A j \in 1..(i - 1) : index[j].msgno # n}
HdrIdx(d, n) == IF First(d.idx, n) = {} THEN 0 ELSE CHOOSE i \in First(d.idx, n) : TRUE

IndexErrorExit(p) ==
    /\ pc' = [pc EXCEPT ![p] = "closed"]
    /\ data' = [data EXCEPT ![p] = NoData]
    /\ msg' = [msg EXCEPT ![p] = NoHeader]
    /\ holder' = IF holder = p THEN NoProc ELSE holder
    /\ islocked' = [islocked EXCEPT ![p] = FALSE]
    /\ UNCHANGED <<files, op, seen, PMrk>>

-----------------------------------------------------------------------------
\* open refreshes without the lock: first the index ...
Open(p) ==
    /\ pc[p] = "closed"
    /\ \E b \in Boards : data' = [data EXCEPT ![p].board = b, ![p].idx = idx]
    /\ pc' = [pc EXCEPT ![p] = "opening"]
    /\ UNCHANGED <<files, holder, islocked, msg, op, seen, PMrk>>

\* ... then the rest; and makes the list.
OpenScan(p) ==
    /\ pc[p] = "opening"
    /\ LET b == data[p].board
           numbers == RawScan(data[p].idx, info, b)
       IN  data' = [data EXCEPT ![p].info = info, ![p].lastrec = lastrecs[p],
                                ![p].Msgn = numbers,
                                ![p].lastread = Position(numbers, lastrecs[p][b])]
    /\ pc' = [pc EXCEPT ![p] = "idle"]
    /\ UNCHANGED <<files, holder, islocked, msg, op, seen, PMrk>>

\* save_lastread writes the pointers of all boards, as last refreshed.
LastRead(d) == IF d.lastread = 0 THEN 0 ELSE d.Msgn[d.lastread]
SaveLastread(p) ==
    lastrecs' = [lastrecs EXCEPT ![p] =
        [data[p].lastrec EXCEPT ![data[p].board] = LastRead(data[p])]]

Close(p) ==
    /\ pc[p] = "idle"
    /\ SaveLastread(p)
    /\ holder' = IF islocked[p] THEN NoProc ELSE holder
    /\ islocked' = [islocked EXCEPT ![p] = FALSE]
    /\ data' = [data EXCEPT ![p] = NoData]
    /\ msg' = [msg EXCEPT ![p] = NoHeader]
    /\ pc' = [pc EXCEPT ![p] = "closed"]
    /\ UNCHANGED <<hdr, idx, info, lists, op, seen, PMrk>>

\* Nothing suspends an area it has locked.
Suspend(p) ==
    /\ pc[p] = "idle" /\ "suspend" \in Calls /\ ~islocked[p]
    /\ SaveLastread(p)
    /\ data' = [data EXCEPT ![p].lastrec = lastrecs'[p]]
    /\ UNCHANGED <<hdr, idx, info, lists, holder, islocked, pc, msg, op, seen, PMrk>>

\* What the user has been at or past, at a position of the list.
Passed(d) ==
    {hdr[HdrIdx(d, n)].id : n \in {m \in {d.Msgn[i] : i \in 1..d.lastread} :
                                     HdrIdx(d, m) # 0}}

\* load_message reads the header the copy of the index names.
Load(p) ==
    /\ pc[p] = "idle"
    /\ \E r \in DOMAIN data[p].Msgn :
        LET d == [data[p] EXCEPT !.lastread = r]
            i == HdrIdx(d, d.Msgn[r])
        IN  IF i = 0 THEN IndexErrorExit(p)
            ELSE /\ data' = [data EXCEPT ![p] = d]
                 /\ msg' = [msg EXCEPT ![p] = hdr[i]]
                 /\ seen' = [seen EXCEPT ![p] = @ \cup Passed(d)]
                 /\ UNCHANGED <<files, holder, islocked, pc, op, PMrk>>

-----------------------------------------------------------------------------
\* The lock is retried until it succeeds.
MayLock(p) == holder \in {NoProc, p}

Lock(p) ==
    /\ pc[p] = "idle" /\ "lock" \in Calls /\ MayLock(p)
    /\ holder' = p
    /\ islocked' = [islocked EXCEPT ![p] = TRUE]
    /\ data' = [data EXCEPT ![p] = Refresh(p)]
    /\ UNCHANGED <<files, pc, msg, op, seen, PMrk>>

Unlock(p) ==
    /\ pc[p] = "idle" /\ islocked[p]
    /\ holder' = NoProc
    /\ islocked' = [islocked EXCEPT ![p] = FALSE]
    /\ UNCHANGED <<files, pc, data, msg, op, seen, PMrk>>

\* update_timesread changes nothing else in the header, but would unlock even an
\* area that Area::Lock has locked.  No loop under Area::Lock calls it.
TimesRead(p) ==
    /\ pc[p] = "idle" /\ "timesread" \in Calls /\ MayLock(p)
    /\ msg[p].msgno # 0
    /\ IF HdrIdx(Refresh(p), msg[p].msgno) = 0 THEN IndexErrorExit(p)
       ELSE /\ data' = [data EXCEPT ![p] = Refresh(p)]
            /\ holder' = NoProc
            /\ islocked' = [islocked EXCEPT ![p] = FALSE]
            /\ UNCHANGED <<files, pc, msg, op, seen, PMrk>>

\* save_message: where the message goes, and its header.  No two messages have
\* their headers at one place, so the place of a new one says which it is.
Place(p, d, mode, uns) ==
    LET b == d.board
    IN  IF mode = "new"
        THEN [mode |-> mode, at |-> Len(hdr) + 1,
              hdr |-> Header(d.info.high + 1, b, Len(hdr) + 1, uns)]
        ELSE [mode |-> mode, at |-> HdrIdx(d, msg[p].msgno),
              hdr |-> Header(msg[p].msgno, b, msg[p].id, uns)]

Save(p, mode) ==
    /\ pc[p] = "idle" /\ mode \in Calls /\ MayLock(p)
    /\ mode = "new" => Len(hdr) < MaxHdr
    /\ mode # "new" => msg[p].msgno # 0
    /\ \E uns \in CASE mode = "del" -> {msg[p].uns}
                    [] data[p].board \in LocalBoards -> {FALSE}
                    [] OTHER -> BOOLEAN :
        LET place == Place(p, Refresh(p), mode, uns)
        IN  IF place.at = 0 THEN IndexErrorExit(p)
            ELSE /\ holder' = p
                 /\ data' = [data EXCEPT ![p] = Refresh(p)]
                 /\ op' = [op EXCEPT ![p] = place]
                 /\ pc' = [pc EXCEPT ![p] = "header"]
                 /\ UNCHANGED <<files, islocked, msg, seen, PMrk>>

WriteHdr(p) ==
    /\ pc[p] = "header"
    /\ hdr' = Put(hdr, op[p].at, op[p].hdr)
    /\ pc' = [pc EXCEPT ![p] = "index"]
    /\ UNCHANGED <<idx, info, lastrecs, lists, holder, islocked, data, msg, op, seen, PMrk>>

WriteIdx(p) ==
    /\ pc[p] = "index"
    /\ LET h == op[p].hdr
           e == Entry(IF op[p].mode = "del" THEN DELETEDMSGNO ELSE h.msgno, h.board)
       IN  /\ idx' = Put(idx, op[p].at, e)
           /\ data' = [data EXCEPT ![p].idx = Put(@, op[p].at, e)]
    /\ pc' = [pc EXCEPT ![p] = "info"]
    /\ UNCHANGED <<hdr, info, lastrecs, lists, holder, islocked, msg, op, seen, PMrk>>

\* Mutant: the highest number falls with each message deleted.
NewHigh_Down(p) ==
    IF op[p].mode = "new" THEN op[p].hdr.msgno
    ELSE IF op[p].mode = "del" THEN data[p].info.high - 1 ELSE data[p].info.high

\* The highest number, when it is deleted, is the last there is in the index;
\* none there, it stays.
LastLive(index) == {i \in DOMAIN index : /\ index[i].msgno # DELETEDMSGNO
                                         /\ \A j \in (i + 1)..Len(index) :
                                                index[j].msgno = DELETEDMSGNO}
NewHigh(p) ==
    LET high == data[p].info.high
        live == LastLive(data[p].idx)
    IN  CASE op[p].mode = "new" -> op[p].hdr.msgno
          [] op[p].mode = "del" /\ op[p].hdr.msgno = high /\ live # {} ->
                data[p].idx[CHOOSE i \in live : TRUE].msgno
          [] OTHER -> high

WriteInfo(p) ==
    /\ pc[p] = "info"
    /\ LET change == CASE op[p].mode = "new" -> 1 [] op[p].mode = "del" -> -1 [] OTHER -> 0
       IN  info' = [high   |-> NewHigh(p),
                    active |-> [data[p].info.active EXCEPT ![op[p].hdr.board] = @ + change]]
    /\ data' = [data EXCEPT ![p].info = info']
    /\ pc' = [pc EXCEPT ![p] = "lists"]
    /\ UNCHANGED <<hdr, idx, lastrecs, lists, holder, islocked, msg, op, seen, PMrk>>

\* update_netecho reads the file in Syspath.  What is left is written to Path;
\* an empty one is removed, without a path, from the working directory.
UpdateNetecho(l, name, at, delete) ==
    LET new == IF delete THEN l[Syspath][name] \ {at} ELSE l[Syspath][name] \cup {at}
    IN  IF new # {} THEN [l EXCEPT ![Path][name] = new]
                    ELSE [l EXCEPT ![Cwd][name] = {}]

\* Mutant: a deleted message is only taken off the list of its kind if unsent.
NewLists_UnsentOnly(p) ==
    LET h == op[p].hdr  del == op[p].mode = "del"
        net == IF h.uns /\ h.board \in NetBoards /\ ~del
               THEN UpdateNetecho(lists, "netmail", op[p].at, del) ELSE lists
    IN  IF (h.uns /\ h.board \in EchoBoards) \/ del
        THEN UpdateNetecho(net, "echomail", op[p].at, del) ELSE net

NewLists(p) ==
    LET h == op[p].hdr  del == op[p].mode = "del"
        net == IF (h.uns /\ h.board \in NetBoards) \/ del
               THEN UpdateNetecho(lists, "netmail", op[p].at, del) ELSE lists
    IN  IF (h.uns /\ h.board \in EchoBoards) \/ del
        THEN UpdateNetecho(net, "echomail", op[p].at, del) ELSE net

\* Area::DeleteMsg has moved a position at the deleted message to a neighbour.
Neighbours(d, n) ==
    LET l == d.lastread
    IN  IF l = 0 \/ LastRead(d) # n THEN {l}
        ELSE {IF l < Len(d.Msgn) THEN l + 1 ELSE l - 1,
              IF l > 1 THEN l - 1 ELSE IF Len(d.Msgn) > 1 THEN 2 ELSE 0}

\* What is left of the list, at a position, when a number is deleted.
Without(d, n, l) ==
    LET list == Chosen(d.Msgn, {i \in DOMAIN d.Msgn : d.Msgn[i] # n})
    IN  [d EXCEPT !.Msgn = list,
                  !.lastread = IF l = 0 THEN 0 ELSE Position(list, d.Msgn[l])]

\* Last the scanning files, and the lock, unless it is Area::Lock's.
Finish(p) ==
    /\ pc[p] = "lists"
    /\ lists' = NewLists(p)
    /\ \E l \in Neighbours(data[p], op[p].hdr.msgno) :
        LET n == op[p].hdr.msgno
            d == CASE op[p].mode = "new" -> [data[p] EXCEPT !.Msgn = Append(@, n)]
                   [] op[p].mode = "del" -> Without(data[p], n, l)
                   [] OTHER              -> data[p]
        IN  /\ data' = [data EXCEPT ![p] = d]
            /\ seen' = [seen EXCEPT ![p] = @ \cup Passed(d)]
    /\ msg' = [msg EXCEPT ![p] = IF op[p].mode = "del" THEN NoHeader ELSE @]
    /\ holder' = IF islocked[p] THEN p ELSE NoProc
    /\ op' = [op EXCEPT ![p] = NoOp]
    /\ pc' = [pc EXCEPT ![p] = "idle"]
    /\ UNCHANGED <<hdr, idx, info, lastrecs, islocked, PMrk>>

-----------------------------------------------------------------------------
\* HudsWideOpen, scan_pm of all boards ("If after lastread") and HudsWideClose.
ScanPm(p) ==
    /\ pc[p] = "closed" /\ "pm" \in Calls /\ holder = NoProc
    /\ PMrk' = [PMrk EXCEPT ![p] =
        {i \in DOMAIN idx :
            /\ idx[i].msgno # DELETEDMSGNO
            /\ idx[i].msgno > Found(Numbers(idx, idx[i].board), lastrecs[p][idx[i].board])
            /\ hdr[i].id \in Personal}]
    /\ UNCHANGED <<files, holder, islocked, pc, data, msg, op, seen>>

Step(p) ==
    \/ Open(p) \/ OpenScan(p) \/ Close(p) \/ Suspend(p) \/ Load(p)
    \/ Lock(p) \/ Unlock(p) \/ TimesRead(p)
    \/ (\E mode \in {"new", "hdr", "del"} : Save(p, mode))
    \/ WriteHdr(p) \/ WriteIdx(p) \/ WriteInfo(p) \/ Finish(p) \/ ScanPm(p)

Next == \E p \in Proc : Step(p)

Spec == Init /\ [][Next]_hvars
-----------------------------------------------------------------------------
Headers == [msgno : Nat, board : Boards \cup {0}, id : Nat, uns : BOOLEAN]
Entries == [msgno : Nat, board : Boards]
Places  == [msgno : Nat, board : Boards \cup {0}]
Infos   == [high : Nat, active : [Boards -> Int]]
Lastrec == [Boards -> Nat]

TypeOK ==
    /\ hdr \in Seq(Headers) /\ idx \in Seq(Entries) /\ info \in Infos
    /\ lastrecs \in [Proc -> Lastrec]
    /\ holder \in Proc \cup {NoProc} /\ islocked \in [Proc -> BOOLEAN]
    /\ \A p \in Proc :
        /\ data[p].idx \in Seq(Entries) /\ data[p].info \in Infos
        /\ data[p].lastrec \in Lastrec /\ data[p].board \in Boards \cup {0}
        /\ data[p].Msgn \in Seq(Nat) /\ data[p].lastread \in 0..Len(data[p].Msgn)
        /\ msg[p] \in Headers /\ op[p].hdr \in Headers /\ op[p].at \in Nat

Saving(p) == pc[p] \in {"header", "index", "info", "lists"}

\* A program has the lock exactly while it saves or deletes, or has locked the
\* area: only one writes, and none goes on to have the lock.
MutualExclusion == \A p \in Proc : holder = p <=> Saving(p) \/ islocked[p]

\* Each index entry but those of some messages has its header's board, and its
\* number if it is not deleted; the numbers go up, to the highest at most.
Paired(h, x, but) == \A i \in DOMAIN x \ but : /\ x[i].board = h[i].board
                                               /\ x[i].msgno \in {h[i].msgno, DELETEDMSGNO}
Ascending(x, high) ==
    \A i \in DOMAIN x : /\ x[i].msgno <= high
                        /\ \A j \in 1..(i - 1) : x[i].msgno # DELETEDMSGNO
                                                    => x[j].msgno < x[i].msgno
Matched(h, x, high) == Len(h) = Len(x) /\ Paired(h, x, {}) /\ Ascending(x, high)

\* Between calls the headers and the index match, as the checks at the start of
\* init and the searches of get_hdr_idx and of msginfo's highest number want it.
IndexSound == (\A p \in Proc : ~Saving(p)) => Matched(hdr, idx, info.high)

\* Why: what a program knows of the files while it writes them, one by one.
Slot(p) ==
    LET n == op[p].hdr.msgno  at == op[p].at
    IN  \/ op[p].mode = "new" /\ at = Len(idx) + 1 /\ n = info.high + 1
        \/ op[p].mode \in {"hdr", "del"} /\ at \in DOMAIN idx /\ idx[at].msgno = n /\ n # DELETEDMSGNO
Fresh(p) == data[p].idx = idx /\ data[p].info.high = info.high
LocalInv(p) ==
    /\ Len(data[p].idx) <= Len(hdr)
    /\ pc[p] = "header" => Fresh(p) /\ Slot(p) /\ Matched(hdr, idx, info.high)
    /\ pc[p] = "index" =>
        /\ Fresh(p) /\ Slot(p)
        /\ Len(hdr) = IF op[p].mode = "new" THEN Len(idx) + 1 ELSE Len(idx)
        /\ hdr[op[p].at] = op[p].hdr
        /\ Paired(hdr, idx, {op[p].at}) /\ Ascending(idx, info.high)
    /\ pc[p] = "info" =>
        /\ Fresh(p)
        /\ op[p].mode # "none"
        /\ Matched(hdr, idx, IF op[p].mode = "new" THEN op[p].hdr.msgno ELSE info.high)
    /\ pc[p] = "lists" => Matched(hdr, idx, info.high)

Ops == [mode : {"none", "new", "hdr", "del"}, hdr : Headers, at : Nat]
Datum(d) == /\ {"idx", "info", "board"} \subseteq DOMAIN d
            /\ d.idx \in Seq(Places) /\ d.info.high \in Nat
            /\ d.board \in Boards \cup {0}
Typed ==
    /\ hdr \in Seq(Headers) /\ idx \in Seq(Places) /\ info.high \in Nat
    /\ Len(idx) <= Len(hdr)
    /\ islocked \in [Proc -> BOOLEAN] /\ msg \in [Proc -> Headers] /\ op \in [Proc -> Ops]
    /\ DOMAIN pc = Proc /\ DOMAIN data = Proc
    /\ \A p \in Proc : Datum(data[p])

\* The inductive invariant of the proofs.
IInv == Typed /\ MutualExclusion /\ IndexSound /\ \A p \in Proc : LocalInv(p)

\* And of each board as many messages are in the index as msginfo says are
\* active, which raw_scan takes as the size of its list.
CountsSound == (\A p \in Proc : ~Saving(p)) =>
                    \A b \in Boards : info.active[b] = Len(Numbers(idx, b))

\* A program alone has in its list just the messages of its board.
ListKept ==
    \A p \in Proc : pc[p] = "idle" => data[p].Msgn = Numbers(idx, data[p].board)

\* While no message is being saved, the scanning files in HUDSONSYSPATH name
\* every unsent message and none that is deleted (manuals/gold_ref.txt,
\* HUDSONSYSPATH: "where GoldED can find the NETMAIL.BBS and ECHOMAIL.BBS").
Live == {i \in DOMAIN idx : idx[i].msgno # DELETEDMSGNO}
Unsent(boards) == {i \in Live : hdr[i].uns /\ hdr[i].board \in boards}
ScanningFiles ==
    (\A p \in Proc : ~Saving(p)) =>
        /\ Unsent(NetBoards)  \subseteq lists[Syspath].netmail
        /\ Unsent(EchoBoards) \subseteq lists[Syspath].echomail
        /\ lists[Syspath].netmail \cup lists[Syspath].echomail \subseteq Live

\* A message the user has not been at or past is behind his lastread when he
\* next opens its board, though numbers are given again.
NothingHidden ==
    \A p \in Proc : pc[p] = "closed" =>
        \A i \in Live : idx[i].msgno <= lastrecs[p][idx[i].board] => hdr[i].id \in seen[p]

\* A scan for personal mail finds all that is behind the lastread pointer of
\* its board, if the message lastread names is there.  (If it is not, what
\* follows its place is missed.)
FindsPersonal ==
    \A p \in Proc : PMrk'[p] # PMrk[p] =>
        \A i \in Live :
            LET lr == lastrecs[p][idx[i].board]
            IN  /\ hdr[i].id \in Personal /\ idx[i].msgno > lr
                /\ \E j \in Live : idx[j] = Entry(lr, idx[i].board)
                => i \in PMrk'[p]

\* For one program alone the base is a list of messages, in the order posted.
List == INSTANCE MsgList WITH
            list   <- [k \in 1..Cardinality(Live) |->
                        [msgno |-> hdr[InOrder(Live)[k]].id, by |-> "anyone"]],
            last   <- Len(idx),
            Author <- {"anyone"}
ListImplemented == List!Spec
=============================================================================

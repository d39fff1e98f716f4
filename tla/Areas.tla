------------------------------- MODULE Areas -------------------------------
(***************************************************************************)
(* golded3: the list of areas, scanned for mail (gescan.cpp), sorted       *)
(* (gealst.cpp) and shown to choose an area from (gearea.cpp): the next    *)
(* one to read (NewArea, geread2.cpp), or the destination of messages that *)
(* are copied or moved (CmfMsgs, gecmfd.cpp) while the area they are in    *)
(* stays open.  Other programs bring mail and touch semaphore files, which *)
(* ask for a scan, an import, or the end of the program; they are looked   *)
(* for at the start and when the list is shown and no key is pressed.      *)
(*                                                                         *)
(* A scan takes one step for each area; other programs go on meanwhile.    *)
(* What a scan counts are the messages themselves.  Left out: personal     *)
(* mail (the PMSCAN semaphores, handled like the others), separators,      *)
(* marked areas, SOUP and QWK export, GOLDLAST.LST, copies in one area.    *)
(***************************************************************************)
EXTENDS Integers, FiniteSets, SequencesExt, Listing

CONSTANTS Areas,       \* their numbers (areaid), 0 is none
          Nets,        \* the netmail areas
          AtStartup,   \* those scanned at the start (AREASCAN)
          Excluded,    \* those a scan of all leaves out (AREASCANEXCL)
          ScanOrder,   \* all of them in the order of AREASCANSORT
          Kinds,       \* the semaphores that are configured
          MaxMail,     \* bound on the messages that arrive
          MaxSems      \* bound on the semaphore files that are there at once

AllKinds == <<"qwkimport", "exitnow", "scanall", "scanthis", "scannetmail">>
ASSUME AreaAssumption == /\ Areas \subseteq Nat \ {0} /\ IsFiniteSet(Areas) /\ Areas # {}
                         /\ Nets \cup AtStartup \cup Excluded \subseteq Areas
                         /\ Kinds \subseteq Range(AllKinds) /\ MaxMail \in Nat /\ MaxSems \in Nat
ASSUME OrderAssumption == /\ ScanOrder \in Seq(Areas) /\ Range(ScanOrder) = Areas
                          /\ Len(ScanOrder) = Cardinality(Areas)

VARIABLES
    mail,              \* the messages in the base of each area
    read,              \* those up to the lastread pointer on file
    sems, list,        \* the semaphore files, and the areas SCANTHIS names
    packet,            \* the areas of the messages in the QWK packet
    counted,           \* the messages the program knows of in an area
    idx,               \* AL.idx, the areas in the order of the list
    AA, CurrArea, OrigArea,
    open,              \* the areas that are open
    pc, op, index,     \* the place in the program, its locals, the list's bar
    owed,              \* the messages a request asks to be counted
    again              \* the semaphore whose scan goes on was touched again

outside == <<mail, sems, list, packet, owed, again>>
current == <<AA, CurrArea, OrigArea, open>>
vars    == <<outside, read, counted, idx, current, pc, op, index>>

NoOp == [pick |-> "new", oidx |-> 0,                              \* AreaPick
         caller |-> "startup", mode |-> "none", n |-> 1, bag |-> {},
         broken |-> FALSE, currno |-> 0, stecho |-> 0,            \* AreaScan
         k |-> 1, scanned |-> FALSE, quitall |-> FALSE,           \* CheckSemaphores
         todo |-> {}, move |-> FALSE, dest |-> 0]                 \* CmfMsgs

\* The order of AREALISTSORT: areas with new mail first, then by name.
Unread(a, c, r) == c[a] \ r[a] # {}
Sorted(c, r) == LET new == {a \in Areas : Unread(a, c, r)}
                IN  InOrder(new) \o InOrder(Areas \ new)

\* Mutant: counts from 0, as the code does, and from 1 elsewhere.
AreaIdToNo_FromZero(order, a) == IF \E i \in DOMAIN order : order[i] = a
                                 THEN (CHOOSE i \in DOMAIN order : order[i] = a) - 1 ELSE -1
\* AreaIdToNo, from 1; 0 for the code's -1.
AreaIdToNo(order, a) == IF \E i \in DOMAIN order : order[i] = a
                        THEN CHOOSE i \in DOMAIN order : order[i] = a ELSE 0

Mail == UNION {mail[a] : a \in Areas}

Init ==
    /\ mail = [a \in Areas |-> {}] /\ read = [a \in Areas |-> {}]
    /\ counted = [a \in Areas |-> {}]
    /\ sems = {} /\ list = {} /\ packet = {}
    /\ idx = InOrder(Areas)
    /\ AA = 0 /\ CurrArea = 0 /\ OrigArea = 0 /\ open = {}
    /\ pc = "start" /\ op = NoOp /\ index = 1
    /\ owed = [a \in Areas |-> {}] /\ again = FALSE

-----------------------------------------------------------------------------
\* A tosser puts a message into an area ...
Toss(a) ==
    /\ Cardinality(Mail) + Cardinality(packet) < MaxMail
    /\ mail' = [mail EXCEPT ![a] = @ \cup {Cardinality(Mail) + 1}]
    /\ UNCHANGED <<sems, list, packet, owed, again, read, counted, idx, current, pc, op, index>>

\* The semaphore CheckSemaphores is at.
Kind == AllKinds[op.k]
Scanning(s) == /\ pc = "remove" \/ (pc = "scan" /\ op.mode # "startup")
               /\ op.caller # "list" /\ s = Kind

\* ... and asks for a scan: all that is now there is to be counted.
Covers(s, l, a) == CASE s = "scanall"     -> a \notin Excluded
                     [] s = "scanthis"    -> a \in l
                     [] s = "scannetmail" -> a \in Nets
                     [] OTHER             -> FALSE

Touch(s) ==
    /\ s \in Kinds /\ (pc = "list" \/ Scanning(s))      \* elsewhere it is like in the list
    /\ sems' = sems \cup {s} /\ Cardinality(sems') <= MaxSems
    /\ again' = (again \/ Scanning(s))
    /\ IF s = "scanthis" THEN \E a \in Areas : list' = list \cup {a} ELSE UNCHANGED list
    /\ IF s = "qwkimport" THEN packet' \in SUBSET Areas ELSE UNCHANGED packet
    /\ Cardinality(Mail) + Cardinality(packet') <= MaxMail
    /\ owed' = [a \in Areas |-> IF Covers(s, list', a) THEN mail[a] ELSE owed[a]]
    /\ UNCHANGED <<mail, read, counted, idx, current, pc, op, index>>

\* A request that the program drops without having met it.
Forgiven(areas) == [a \in Areas |-> IF a \in areas THEN {} ELSE owed[a]]

-----------------------------------------------------------------------------
\* AreaList::SetActiveAreaNo
SetActive(a) == AA' = a /\ CurrArea' = a

\* Mutant: keeps the number the area had before the list was sorted.
Selected_OldNumber(a, n) ==
    CASE op.mode = "startup" -> a \in AtStartup
      [] op.mode = "all"     -> a \notin Excluded
      [] op.mode = "netmail" -> a \in Nets
      [] op.mode = "list"    -> a \in op.bag
      [] op.mode = "current" -> n = op.currno

\* Mutant: a scan of all takes the areas of the scan at the start.
Selected_LikeStartup(a, n) ==
    CASE op.mode \in {"startup", "all"} -> a \in AtStartup
      [] op.mode = "netmail" -> a \in Nets
      [] op.mode = "list"    -> a \in op.bag
      [] op.mode = "current" -> n = AreaIdToNo(idx, op.stecho)

\* Whether AreaScan scans an area; currno is found again after the sort.
Selected(a, n) ==
    CASE op.mode = "startup" -> a \in AtStartup
      [] op.mode = "all"     -> a \notin Excluded
      [] op.mode = "netmail" -> a \in Nets
      [] op.mode = "list"    -> a \in op.bag
      [] op.mode = "current" -> n = AreaIdToNo(idx, op.stecho)

\* AreaScan sorts the list, then goes through it.
BeginScan(caller, mode, k) ==
    /\ idx' = ScanOrder
    /\ op' = [op EXCEPT !.k = k, !.caller = caller, !.mode = mode, !.n = 1, !.broken = FALSE,
                        !.currno = IF caller = "list" THEN index ELSE 0,
                        !.stecho = IF caller = "list" THEN idx[index] ELSE 0]
    /\ pc' = "scan"

ScanArea ==
    /\ pc = "scan" /\ op.n <= Len(idx)
    /\ SetActive(idx[op.n])
    /\ counted' = IF Selected(idx[op.n], op.n)
                  THEN [counted EXCEPT ![idx[op.n]] = mail[idx[op.n]]] ELSE counted
    /\ op' = [op EXCEPT !.n = @ + 1]
    /\ UNCHANGED <<outside, read, idx, OrigArea, open, pc, index>>

\* Esc between two areas.
ScanEscape ==
    /\ pc = "scan" /\ op.n <= Len(idx)
    /\ op' = [op EXCEPT !.n = Len(idx) + 1, !.broken = TRUE]
    /\ UNCHANGED <<outside, read, counted, idx, current, pc, index>>

-----------------------------------------------------------------------------
\* Reader scans and looks for semaphores before it shows anything.
Startup ==
    /\ pc = "start"
    /\ \/ BeginScan("startup", "startup", 1)
       \/ /\ idx' = Sorted(counted, read)                              \* -NOSCAN
          /\ op' = [NoOp EXCEPT !.caller = "startup"] /\ pc' = "check"
    /\ UNCHANGED <<outside, read, counted, current, index>>

StartupScanned ==
    /\ pc = "scan" /\ op.n > Len(idx) /\ op.caller = "startup" /\ op.mode = "startup"
    /\ op' = [NoOp EXCEPT !.caller = "startup"]
    /\ pc' = "check"
    /\ UNCHANGED <<outside, read, counted, idx, current, index>>

\* The list is shown, and nobody has pressed a key for IDLETIME seconds.
Tick ==
    /\ pc = "list"
    /\ op' = [op EXCEPT !.caller = "check", !.k = 1, !.scanned = FALSE]
    /\ pc' = "check"
    /\ UNCHANGED <<outside, read, counted, idx, current, index>>

-----------------------------------------------------------------------------
\* CheckSemaphores looks for one file after another, and comes to the first
\* that is there.
Found       == {k \in op.k..Len(AllKinds) : AllKinds[k] \in sems}
At          == Min(Found)
Checking(s) == pc = "check" /\ Found # {} /\ AllKinds[At] = s

\* ImportQWK closes the area that is open, if the packet has a message for
\* another, and saves each message; CurrArea and OrigArea are those of the last.
ImportPacket ==
    LET new == InOrder(packet)
        id(a) == Cardinality(Mail) + AreaIdToNo(new, a)
        got(m) == [a \in Areas |-> IF a \in packet THEN m[a] \cup {id(a)} ELSE m[a]]
    IN  /\ mail' = got(mail)
        /\ counted' = [a \in Areas |-> IF a \in packet THEN got(mail)[a] ELSE counted[a]]
        /\ AA' = Last(new) /\ CurrArea' = Last(new) /\ OrigArea' = Last(new)
        /\ open' = open \ {AA}

\* Without CONTROL.DAT nothing happens; without MESSAGES.DAT, or with none in
\* it, no area is the current one, and the open one is closed only by the latter.
ImportNothing ==
    /\ \/ UNCHANGED <<CurrArea, OrigArea, open>>
       \/ CurrArea' = 0 /\ OrigArea' = 0 /\ open' \in {open} \cup {open \ {a} : a \in {AA} \ {0}}
    /\ UNCHANGED <<mail, counted, AA>>

\* ImportQWK asks the current area whether it is open, and has none to ask at
\* the start when nothing was scanned.  CONTROL.DAT is gone by then, and without
\* it the next import passes the messages over; the semaphore is still there.
ImportCrash ==
    /\ Checking("qwkimport") /\ AA = 0
    /\ pc' = "crashed" /\ packet' = {}
    /\ UNCHANGED <<mail, sems, list, owed, again, read, counted, idx, current, op, index>>

CheckImport ==
    /\ Checking("qwkimport")
    /\ \/ packet = {} /\ ImportNothing
       \/ packet # {} /\ AA # 0 /\ ImportPacket
    /\ op' = [op EXCEPT !.k = At + 1, !.scanned = TRUE]
    /\ packet' = {} /\ sems' = sems \ {"qwkimport"}
    /\ UNCHANGED <<list, owed, again, read, idx, pc, index>>

\* EXITNOW counts only while the list is shown; then nothing else is done.
CheckExit ==
    /\ Checking("exitnow")
    /\ IF op.caller = "startup"
       THEN op' = [op EXCEPT !.k = At + 1] /\ UNCHANGED sems
       ELSE /\ op' = [op EXCEPT !.k = Len(AllKinds) + 1, !.quitall = TRUE]
            /\ sems' = sems \ {"exitnow"}
    /\ UNCHANGED <<mail, list, packet, owed, again, read, counted, idx, current, pc, index>>

\* While an area is open AreaScan refuses; the file is removed all the same,
\* but not the list, which is then not even read.
Refuse(s) ==
    IF s = "scanthis" THEN UNCHANGED <<sems, owed>>
    ELSE /\ sems' = sems \ {s}
         /\ owed' = Forgiven({a \in Areas : Covers(s, list, a)})

CheckScan(s) ==
    /\ Checking(s)
    /\ IF AA \in open
       THEN /\ Refuse(s)
            /\ op' = [op EXCEPT !.k = At + 1]
            /\ UNCHANGED <<idx, pc>>
       ELSE /\ UNCHANGED <<sems, owed>>
            /\ IF s = "scanthis"
               THEN /\ op' = [op EXCEPT !.k = At, !.bag = list]
                    /\ pc' = "remove" /\ UNCHANGED idx
               ELSE BeginScan(op.caller, IF s = "scanall" THEN "all" ELSE "netmail", At)
    /\ UNCHANGED <<mail, list, packet, again, read, counted, current, index>>

\* The list of SCANTHIS is removed when it has been read, before the scan.
RemoveList ==
    /\ pc = "remove"
    /\ sems' = sems \ {"scanthis"} /\ list' = {}
    /\ owed' = IF again THEN Forgiven(list \ op.bag) ELSE owed
    /\ again' = FALSE
    /\ BeginScan(op.caller, "list", op.k)
    /\ UNCHANGED <<mail, packet, read, counted, current, index>>

\* Mutant: the file stays if the scan was interrupted.
Done_UnlessBroken == IF op.broken THEN sems ELSE sems \ {Kind}
\* The other semaphores are removed after the scan.
Done == sems \ {Kind}

CheckScanned ==
    /\ pc = "scan" /\ op.n > Len(idx) /\ op.caller # "list" /\ op.mode # "startup"
    /\ IF op.mode = "list"
       THEN /\ UNCHANGED sems
            /\ owed' = IF op.broken THEN Forgiven(op.bag) ELSE owed
       ELSE /\ sems' = Done
            /\ owed' = IF op.broken \/ again
                       THEN Forgiven({a \in Areas : Covers(Kind, list, a)}) ELSE owed
    /\ op' = [op EXCEPT !.k = @ + 1, !.scanned = TRUE, !.mode = "none", !.n = 1,
                        !.bag = {}, !.broken = FALSE]
    /\ pc' = "check" /\ again' = FALSE
    /\ UNCHANGED <<mail, list, packet, read, counted, idx, current, index>>

\* What the list was shown for.
Picking == [NoOp EXCEPT !.pick = op.pick, !.oidx = op.oidx, !.todo = op.todo, !.move = op.move]

\* Then the list is sorted, if anything was scanned; the bar stays where it is
\* on the screen.  At the start the first area becomes the current one.
CheckDone ==
    /\ pc = "check" /\ Found = {}
    /\ IF op.caller = "startup"
       THEN /\ idx' = Sorted(counted, read)
            /\ SetActive(idx'[1])
            /\ index' = 1
            /\ pc' = "list" /\ op' = NoOp
       ELSE /\ idx' = IF op.scanned THEN Sorted(counted, read) ELSE idx
            /\ pc' = IF op.quitall THEN "quit" ELSE "list"
            /\ op' = Picking
            /\ UNCHANGED <<AA, CurrArea, index>>
    /\ UNCHANGED <<outside, read, counted, OrigArea, open>>

-----------------------------------------------------------------------------
\* The list: the keys that matter, for an area to read (pick "new", from
\* NewArea) or to put messages in (pick "dest", from CmfMsgs).
MoveBar ==
    /\ pc = "list"
    /\ \E i \in {index - 1, index + 1} \cap DOMAIN idx : index' = i
    /\ UNCHANGED <<outside, read, counted, idx, current, pc, op>>

\* What NewArea does with the area it is given: the list is sorted, and the
\* reader opens the area, which scans it.
ReadArea(a) ==
    /\ SetActive(a) /\ OrigArea' = a
    /\ idx' = Sorted(counted, read)
    /\ open' = {a} /\ counted' = [counted EXCEPT ![a] = mail[a]]
    /\ pc' = "reader" /\ op' = NoOp /\ index' = 1

SelectArea ==
    /\ pc = "list" /\ op.pick = "new"
    /\ ReadArea(idx[index])
    /\ UNCHANGED <<outside, read>>

\* Without a choice NewArea takes the area that has the number the one it left
\* had when it looked for new mail, or the current one: the last one scanned,
\* if there was a scan, and none after an import of no messages (idx[-1]).
Abort ==
    /\ pc = "list" /\ op.pick = "new"
    /\ LET a == IF op.oidx # 0 THEN idx[op.oidx] ELSE CurrArea
       IN  IF a # 0 THEN ReadArea(a)
           ELSE pc' = "crashed" /\ UNCHANGED <<counted, idx, current, op, index>>
    /\ UNCHANGED <<outside, read>>

AbortDest ==
    /\ pc = "list" /\ op.pick = "dest"
    /\ pc' = "reader" /\ op' = NoOp /\ index' = 1
    /\ UNCHANGED <<outside, read, counted, idx, current>>

\* A scan asked for with a key.  While an area is open it is refused, and the
\* area under the bar becomes the current one all the same.
ScanKey(mode) ==
    /\ pc = "list"
    /\ IF AA \in open
       THEN SetActive(idx[index]) /\ UNCHANGED <<idx, op, pc>>
       ELSE BeginScan("list", mode, 1) /\ UNCHANGED <<AA, CurrArea>>
    /\ UNCHANGED <<outside, read, counted, OrigArea, open, index>>

\* Mutant: the bar stays where it is on the screen.
Under_SameLine(order, a) == index
Under(order, a) == AreaIdToNo(order, a)

ListScanned ==
    /\ pc = "scan" /\ op.n > Len(idx) /\ op.caller = "list"
    /\ SetActive(idx[op.currno])
    /\ idx' = Sorted(counted, read)
    /\ index' = Under(idx', op.stecho)
    /\ pc' = "list" /\ op' = Picking
    /\ UNCHANGED <<outside, read, counted, OrigArea, open>>

-----------------------------------------------------------------------------
\* The reader.  On an area that is not open, or when an import of no messages
\* has left no current area, what its operations do is undefined.
Reading == pc = "reader" /\ AA \in open /\ CurrArea # 0

\* Everything has been read when the area is closed.
ReadUpTo == read' = [read EXCEPT ![AA] = counted[AA]]

ShowList(pick, oidx) ==
    /\ op' = [NoOp EXCEPT !.pick = pick, !.oidx = oidx]
    /\ index' = AreaIdToNo(idx, CurrArea)
    /\ pc' = "list"

NewArea ==
    /\ Reading /\ ReadUpTo
    /\ open' = {} /\ ShowList("new", 0)
    /\ UNCHANGED <<outside, counted, idx, AA, CurrArea, OrigArea>>

\* NewArea(jumpnext): on to the next area with new mail, round the list.
Later(n, k) == idx[((n + k - 1) % Len(idx)) + 1]
JumpNext ==
    /\ Reading /\ ReadUpTo
    /\ LET n == AreaIdToNo(idx, CurrArea)
           new == {k \in 1..(Len(idx) - 1) : Unread(Later(n, k), counted, read')}
           a   == Later(n, Min(new))
       IN  IF new = {}
           THEN /\ open' = {} /\ ShowList("new", n)
                /\ UNCHANGED <<counted, idx, AA, CurrArea, OrigArea>>
           ELSE /\ SetActive(a) /\ OrigArea' = a
                /\ idx' = Sorted(counted, read')
                /\ open' = {a}
                /\ counted' = [counted EXCEPT ![a] = mail[a]]
                /\ UNCHANGED <<pc, op, index>>
    /\ UNCHANGED outside

\* NextArea, PrevArea: the one after or before, or the same at either end.
StepArea(d) ==
    /\ Reading /\ ReadUpTo
    /\ LET n == AreaIdToNo(idx, CurrArea)
           a == idx[IF n + d \in DOMAIN idx THEN n + d ELSE n]
       IN  /\ SetActive(a) /\ OrigArea' = a
           /\ open' = {a} /\ counted' = [counted EXCEPT ![a] = mail[a]]
    /\ UNCHANGED <<outside, idx, pc, op, index>>

\* CmfMsgs asks for the destination while the area stays open.
PickDest ==
    /\ Reading /\ counted[AA] # {}
    /\ \E todo \in SUBSET counted[AA] \ {{}}, move \in BOOLEAN :
           op' = [NoOp EXCEPT !.pick = "dest", !.move = move, !.todo = todo]
    /\ index' = AreaIdToNo(idx, CurrArea)
    /\ pc' = "list"
    /\ UNCHANGED <<outside, read, counted, idx, current>>

-----------------------------------------------------------------------------
\* Copying and moving: the destination is opened (the data of the original is
\* read through a null pointer if an import has closed it) ...
SelectDest ==
    /\ pc = "list" /\ op.pick = "dest"
    /\ SetActive(OrigArea)
    /\ \E a \in Areas \ {OrigArea} :
           /\ a = idx[index]
           /\ IF OrigArea \in open
              THEN /\ open' = open \cup {a}
                   /\ counted' = [counted EXCEPT ![a] = mail[a]]
                   /\ op' = [op EXCEPT !.dest = a]
                   /\ pc' = "move" /\ index' = 1
              ELSE pc' = "crashed" /\ UNCHANGED <<open, counted, op, index>>
    /\ UNCHANGED <<outside, read, idx, OrigArea>>

\* ... each message is saved there, and then deleted if it is moved.
HalfOf(k, b, m) == IF k = 1 THEN [b EXCEPT ![op.dest] = @ \cup {m}]
                   ELSE [b EXCEPT ![OrigArea] = @ \ {m}]
\* Mutant: deletes the original before the copy is saved.
Half_DeleteFirst(k, b, m) == HalfOf(IF op.move THEN 3 - k ELSE k, b, m)
Half(k, b, m) == HalfOf(k, b, m)

CopyMsg ==
    /\ pc = "move" /\ op.todo # {}
    /\ \E m \in op.todo :
           /\ m = CHOOSE x \in op.todo : \A y \in op.todo : x <= y
           /\ mail' = Half(1, mail, m) /\ counted' = Half(1, counted, m)
           /\ IF op.move THEN pc' = "delete" /\ UNCHANGED op
              ELSE op' = [op EXCEPT !.todo = @ \ {m}] /\ UNCHANGED pc
    /\ UNCHANGED <<sems, list, packet, owed, again, read, idx, current, index>>

DeleteMsg ==
    /\ pc = "delete"
    /\ LET m == CHOOSE x \in op.todo : \A y \in op.todo : x <= y
       IN  /\ mail' = Half(2, mail, m) /\ counted' = Half(2, counted, m)
           /\ read' = [read EXCEPT ![OrigArea] = @ \ {m}]
           /\ owed' = [owed EXCEPT ![OrigArea] = @ \ {m}]
           /\ op' = [op EXCEPT !.todo = @ \ {m}]
    /\ pc' = "move"
    /\ UNCHANGED <<sems, list, packet, again, idx, current, index>>

\* All are done, or Esc; the destination is closed.
EndMove ==
    /\ pc = "move"
    /\ SetActive(OrigArea) /\ open' = open \ {op.dest}
    /\ pc' = "reader" /\ op' = NoOp
    /\ UNCHANGED <<outside, read, counted, idx, OrigArea, index>>

-----------------------------------------------------------------------------
\* The program ends, or is killed anywhere, and is started again: what it
\* knew is gone, and what was asked for counts if the file is still there.
Kill ==
    /\ pc # "start"
    /\ counted' = [a \in Areas |-> {}]
    /\ idx' = InOrder(Areas)
    /\ AA' = 0 /\ CurrArea' = 0 /\ OrigArea' = 0 /\ open' = {}
    /\ pc' = "start" /\ op' = NoOp /\ index' = 1
    /\ again' = FALSE
    /\ owed' = [a \in Areas |-> IF \E s \in sems : Covers(s, list, a) THEN owed[a] ELSE {}]
    /\ UNCHANGED <<mail, sems, list, packet, read>>

Scan  == ScanArea \/ ScanEscape \/ StartupScanned \/ CheckScanned \/ ListScanned
Check == \/ CheckImport \/ ImportCrash \/ CheckExit \/ RemoveList \/ CheckDone
         \/ \E s \in {"scanall", "scanthis", "scannetmail"} : CheckScan(s)
User  == \/ MoveBar \/ SelectArea \/ SelectDest \/ Abort \/ AbortDest
         \/ ScanKey("current")            \* the others are like those of semaphores
         \/ NewArea \/ JumpNext \/ PickDest \/ \E d \in {-1, 1} : StepArea(d)
Move  == CopyMsg \/ DeleteMsg \/ EndMove
Next  == \/ Startup \/ Tick \/ Scan \/ Check \/ User \/ Move \/ Kill
         \/ \E a \in Areas : Toss(a)
         \/ \E s \in Kinds : Touch(s)
Spec  == Init /\ [][Next]_vars

\* The program goes on with what it has begun, and whoever looks at the list
\* leaves the keys alone long enough for it to look for semaphores.
FairSpec == Spec /\ SF_vars(Tick) /\ WF_vars(Scan) /\ WF_vars(Check)

-----------------------------------------------------------------------------
\* Every variable has its type: the list is a permutation of the areas, the
\* bar is on it, at most two areas are open, and nothing is counted that has
\* never been there.
TypeOK ==
    /\ mail \in [Areas -> SUBSET (1..MaxMail)]
    /\ read \in [Areas -> SUBSET (1..MaxMail)]
    /\ \A a \in Areas : counted[a] \subseteq mail[a]
    /\ sems \subseteq Kinds /\ again \in BOOLEAN
    /\ list \cup packet \subseteq Areas
    /\ Len(idx) = Cardinality(Areas) /\ Range(idx) = Areas /\ index \in DOMAIN idx
    /\ {AA, CurrArea, OrigArea} \subseteq Areas \cup {0}
    /\ open \subseteq Areas /\ Cardinality(open) <= 2
    /\ pc \in {"start", "scan", "check", "remove", "list", "reader", "move", "delete",
              "quit", "crashed"}

\* A message that was delivered stays in some area, whenever the program is
\* killed: moving saves the copy before it deletes the original.
NothingLost == [][Mail \subseteq Mail']_vars

\* When the list is shown and no semaphore is left, everything is counted that
\* a semaphore asked for, before its scan began and nobody cut short: also
\* when the program was killed during the scan, and the next one made it.
NothingOverlooked ==
    pc = "list" /\ sems = {} => \A a \in Areas : owed[a] \subseteq counted[a]

\* A scan of the area under the bar scans that one, though AreaScan sorts the
\* list before it and numbers it again.
ScansCurrent ==
    [][\A a \in Areas : pc = "scan" /\ op.mode = "current" /\ ~(counted'[a] \subseteq counted[a])
                         => a = op.stecho]_vars

\* The bar is on the area it was on when a scan asked for with a key is over.
BarKept ==
    [][pc = "scan" /\ op.caller = "list" /\ pc' = "list" => idx'[index'] = op.stecho]_vars

\* A semaphore that asks for a scan and is there while the list is shown to
\* choose an area to read is dealt with and removed, even if every scan is cut short; or the program is left.
SemaphoreSeen ==
    \A s \in Kinds \ {"qwkimport", "exitnow"} : (s \in sems /\ pc = "list" /\ open = {})
                       ~> (s \notin sems \/ pc \in {"reader", "quit", "crashed", "start"})

\* "Never scan if there's active area" (golded3/gescan.cpp:184).  Broken: the
\* scan refused while a destination is chosen makes another area current.
ScansClosed == pc = "scan" => open = {}
=============================================================================

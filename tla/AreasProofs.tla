---------------------------- MODULE AreasProofs ----------------------------
(***************************************************************************)
(* Proofs about Areas, for any areas, any order of the scan and any        *)
(* bounds: moving loses no message, a scan of the area under the bar scans *)
(* that one and leaves the bar on it, no scan somebody asked for is        *)
(* overlooked, and the list stays a permutation of the areas.              *)
(***************************************************************************)
EXTENDS Areas, Counting

Fields == {"pick", "oidx", "caller", "mode", "n", "bag", "broken", "currno", "stecho",
           "k", "scanned", "quitall", "todo", "move", "dest"}

\* As much of the types as the proofs need.
Typed ==
    /\ DOMAIN mail = Areas /\ DOMAIN counted = Areas /\ DOMAIN owed = Areas
    /\ DOMAIN op = Fields

\* What is asked for is there.
OwedThere == \A a \in Areas : owed[a] \subseteq mail[a]

\* The scan goes through the areas in their order, for the list or for the
\* semaphore CheckSemaphores is at.
ScanPlace ==
    /\ pc \in {"check", "remove"} => op.caller # "list"
    /\ pc = "scan" =>
         /\ idx = ScanOrder /\ op.n \in Nat \ {0}
         /\ op.mode = "current" <=> op.caller = "list"
         /\ op.mode \in {"startup", "current", "list", "all", "netmail"}
         /\ op.mode = "all" => Kind = "scanall"
         /\ op.mode = "netmail" => Kind = "scannetmail"

\* The areas the scan has yet to come to.
Ahead(a) == \E i \in DOMAIN idx : i >= op.n /\ idx[i] = a

\* A file asks for a scan of the area.
Asked(a) == \E s \in sems : Covers(s, list, a)

\* The list of SCANTHIS has been read and removed, and names the area.
OnList(a) == pc = "scan" /\ op.mode = "list" /\ a \in op.bag /\ (op.broken \/ Ahead(a))

\* What is asked for is known, or there is something left that asks for it.
Accounted ==
    \A a \in Areas : \A m \in owed[a] : m \in counted[a] \/ Asked(a) \/ OnList(a)

\* A semaphore that is removed after its scan is not missed, if the scan was
\* not cut short: what it asks for is known, or its area is still ahead.
AheadOrKnown ==
    pc = "scan" /\ op.mode \in {"all", "netmail"} /\ ~op.broken /\ ~again =>
        \A a \in Areas : Covers(Kind, list, a) =>
            \A m \in owed[a] : m \in counted[a] \/ Ahead(a)

\* The list that is removed is the one that was read, unless it was changed.
ListRead == pc = "remove" /\ ~again => list = op.bag

\* The message CmfMsgs is at, which is in the destination before the original
\* is deleted.
Current == CHOOSE x \in op.todo : \A y \in op.todo : x <= y
CopySaved ==
    /\ pc \in {"move", "delete"} => op.dest \in Areas \ {OrigArea}
    /\ pc = "delete" => Current \in mail[op.dest]

\* The inductive invariant.
IInv == /\ Typed /\ OwedThere /\ ScanPlace /\ Accounted /\ AheadOrKnown /\ ListRead
        /\ CopySaved

-----------------------------------------------------------------------------
LEMMA NoOpFields ==
    /\ DOMAIN NoOp = Fields
    /\ NoOp.caller = "startup" /\ NoOp.mode = "none" /\ NoOp.n = 1
  BY DEF NoOp, Fields

\* A scan that begins has all areas ahead.
LEMMA Begins ==
    ASSUME OrderAssumption, idx' = ScanOrder, op'.n = 1, NEW a \in Areas
    PROVE  Ahead(a)'
  <1>1. PICK i \in DOMAIN ScanOrder : ScanOrder[i] = a
    BY DEF OrderAssumption, Range
  <1>2. i >= 1
    BY DEF OrderAssumption
  <1> QED BY <1>1, <1>2 DEF Ahead

\* What leaves the program outside scans and moves.
LEMMA Rests ==
    ASSUME IInv, Typed', OwedThere',
           pc' \in {"start", "check", "list", "reader", "quit", "crashed"},
           pc' = "check" => op'.caller # "list",
           \A a \in Areas : \A m \in owed'[a] : m \in counted'[a] \/ Asked(a)'
    PROVE  IInv'
  <1>1. ScanPlace' /\ AheadOrKnown' /\ ListRead' /\ CopySaved'
    BY DEF ScanPlace, AheadOrKnown, ListRead, CopySaved
  <1>2. Accounted'
    BY DEF Accounted
  <1> QED BY <1>1, <1>2 DEF IInv

\* The same, when no scan is left and nothing is asked for: what is counted
\* grows, and of what a removed file asked for nothing is owed.
LEMMA Quiet ==
    ASSUME IInv, Typed', pc # "scan",
           pc' \in {"start", "check", "list", "reader", "quit", "crashed"},
           pc' = "check" => op'.caller # "list",
           \A a \in Areas : owed'[a] \subseteq owed[a] /\ mail[a] \subseteq mail'[a],
           \A a \in Areas : counted[a] \subseteq counted'[a] \/ mail[a] \subseteq counted'[a],
           \A a \in Areas : Asked(a) => Asked(a)' \/ owed'[a] = {}
    PROVE  IInv'
  <1>1. OwedThere'
    BY DEF IInv, OwedThere
  <1>2. ASSUME NEW a \in Areas, NEW m \in owed'[a] PROVE m \in counted'[a] \/ Asked(a)'
    <2>1. m \in owed[a] /\ m \in mail[a]
      BY DEF IInv, OwedThere
    <2>2. m \in counted[a] \/ Asked(a)
      BY <2>1 DEF IInv, Accounted, OnList
    <2> QED BY <2>1, <2>2
  <1> QED BY <1>1, <1>2, Rests

\* The files and the list stay as they are.
LEMMA SameFiles ==
    ASSUME UNCHANGED <<sems, list>>, NEW a \in Areas PROVE Asked(a)' = Asked(a)
  BY DEF Asked, Covers

-----------------------------------------------------------------------------
LEMMA InvInit == Init => IInv
  <1> SUFFICES ASSUME Init PROVE IInv
    OBVIOUS
  <1>1. Typed /\ OwedThere
    BY NoOpFields DEF Init, Typed, OwedThere
  <1>2. ScanPlace /\ AheadOrKnown /\ ListRead /\ CopySaved
    BY DEF Init, ScanPlace, AheadOrKnown, ListRead, CopySaved
  <1>3. Accounted
    BY DEF Init, Accounted
  <1> QED BY <1>1, <1>2, <1>3 DEF IInv

\* A message arrives, or nothing happens.
LEMMA TossInv == ASSUME IInv, NEW a \in Areas, Toss(a) PROVE IInv'
  <1>1. UNCHANGED <<sems, list, owed, again, counted, idx, current, pc, op>>
    BY DEF Toss
  <1>2. DOMAIN mail' = Areas /\ \A b \in Areas : mail[b] \subseteq mail'[b]
    BY DEF Toss, IInv, Typed
  <1>3. Typed' /\ OwedThere'
    BY <1>1, <1>2 DEF IInv, Typed, OwedThere
  <1>4. ScanPlace' /\ ListRead'
    BY <1>1 DEF IInv, ScanPlace, ListRead, Kind
  <1>5. Accounted'
    BY <1>1 DEF IInv, Accounted, Asked, Covers, OnList, Ahead
  <1>6. AheadOrKnown'
    BY <1>1 DEF IInv, AheadOrKnown, Kind, Covers, Ahead
  <1>7. CopySaved'
    BY <1>1, <1>2 DEF IInv, CopySaved, Current, current
  <1> QED BY <1>3, <1>4, <1>5, <1>6, <1>7 DEF IInv

\* A semaphore is touched.  What it asks for is asked for by it, and a scan
\* that goes on for the same semaphore is known to have been overtaken.
LEMMA TouchInv == ASSUME IInv, NEW s \in Kinds, Touch(s) PROVE IInv'
  <1>1. /\ UNCHANGED <<mail, counted, idx, current, pc, op>>
        /\ sems' = sems \cup {s} /\ list \subseteq list'
        /\ owed' = [a \in Areas |-> IF Covers(s, list', a) THEN mail[a] ELSE owed[a]]
    BY DEF Touch
  <1>2. pc = "list" \/ (Scanning(s) /\ again')
    BY DEF Touch
  <1>3. pc \in {"list", "remove", "scan"}
    BY DEF Touch, Scanning
  <1>4. Typed' /\ OwedThere'
    BY <1>1 DEF IInv, Typed, OwedThere
  <1>5. ScanPlace' /\ ListRead' /\ AheadOrKnown'
    BY <1>1, <1>2 DEF IInv, ScanPlace, ListRead, AheadOrKnown, Kind
  <1>6. ASSUME NEW a \in Areas PROVE Asked(a) => Asked(a)'
    BY <1>1 DEF Asked, Covers
  <1>7. ASSUME NEW a \in Areas, NEW m \in owed'[a]
        PROVE  m \in counted'[a] \/ Asked(a)' \/ OnList(a)'
    <2>1. CASE Covers(s, list', a)
      BY <1>1, <2>1 DEF Asked, Covers
    <2>2. CASE ~Covers(s, list', a)
      <3>1. m \in owed[a]
        BY <1>1, <2>2
      <3>2. m \in counted[a] \/ Asked(a) \/ OnList(a)
        BY <3>1 DEF IInv, Accounted
      <3>3. OnList(a) => OnList(a)'
        BY <1>1 DEF OnList, Ahead
      <3> QED BY <1>1, <1>6, <3>2, <3>3
    <2> QED BY <2>1, <2>2
  <1>8. Accounted'
    BY <1>7 DEF Accounted
  <1>9. CopySaved'
    BY <1>1, <1>3 DEF CopySaved
  <1> QED BY <1>4, <1>5, <1>8, <1>9 DEF IInv

-----------------------------------------------------------------------------
\* A scan begins, for the list or for a semaphore, or at the start.
LEMMA BeginScanInv ==
    ASSUME OrderAssumption, IInv, NEW caller, NEW mode, NEW k,
           BeginScan(caller, mode, k),
           UNCHANGED <<mail, counted>>, DOMAIN owed' = Areas,
           \A a \in Areas : owed'[a] \subseteq owed[a],
           mode = "current" <=> caller = "list",
           mode \in {"startup", "current", "list", "all", "netmail"},
           mode = "all" => AllKinds[k] = "scanall",
           mode = "netmail" => AllKinds[k] = "scannetmail",
           \A a \in Areas : \A m \in owed'[a] :
               m \in counted[a] \/ Asked(a)' \/ (mode = "list" /\ a \in op.bag)
    PROVE  IInv'
  <1>1. /\ idx' = ScanOrder /\ pc' = "scan" /\ DOMAIN op' = Fields
        /\ op'.caller = caller /\ op'.mode = mode /\ op'.n = 1 /\ op'.k = k
        /\ op'.bag = op.bag
    BY DEF BeginScan, IInv, Typed, Fields
  <1>2. Typed' /\ OwedThere'
    BY <1>1 DEF IInv, Typed, OwedThere
  <1>3. ScanPlace'
    BY <1>1 DEF ScanPlace, Kind
  <1>4. \A a \in Areas : Ahead(a)'
    BY <1>1, Begins
  <1>5. Accounted' /\ AheadOrKnown'
    BY <1>1, <1>4 DEF Accounted, AheadOrKnown, OnList
  <1>6. ListRead' /\ CopySaved'
    BY <1>1 DEF ListRead, CopySaved
  <1> QED BY <1>2, <1>3, <1>5, <1>6 DEF IInv

LEMMA StartupInv == ASSUME OrderAssumption, IInv, Startup PROVE IInv'
  <1>1. UNCHANGED <<outside, counted>> /\ pc = "start"
    BY DEF Startup
  <1>2. CASE BeginScan("startup", "startup", 1)
    <2>1. \A a \in Areas : \A m \in owed'[a] : m \in counted[a] \/ Asked(a)'
      BY <1>1, SameFiles DEF outside, IInv, Accounted, OnList
    <2>2. DOMAIN owed' = Areas /\ \A a \in Areas : owed'[a] \subseteq owed[a]
      BY <1>1 DEF outside, IInv, Typed
    <2> QED BY <1>1, <1>2, <2>1, <2>2, BeginScanInv DEF outside
  <1>3. CASE op' = [NoOp EXCEPT !.caller = "startup"] /\ pc' = "check"
    <2>1. DOMAIN op' = Fields /\ op'.caller = "startup"
      BY <1>3, NoOpFields DEF Fields
    <2>2. Typed'
      BY <1>1, <2>1 DEF outside, IInv, Typed
    <2> QED BY <1>1, <1>3, <2>1, <2>2, SameFiles, Quiet DEF outside
  <1> QED BY <1>2, <1>3 DEF Startup

LEMMA TickInv == ASSUME IInv, Tick PROVE IInv'
  <1>1. UNCHANGED <<outside, counted>> /\ pc = "list" /\ pc' = "check"
        /\ DOMAIN op' = Fields /\ op'.caller = "check"
    BY DEF Tick, IInv, Typed, Fields
  <1>2. Typed'
    BY <1>1 DEF outside, IInv, Typed
  <1> QED BY <1>1, <1>2, SameFiles, Quiet DEF outside

-----------------------------------------------------------------------------
\* Files that ask for no scan, or that are refused, go.
LEMMA OtherFiles ==
    ASSUME NEW s, list' = list, sems' = sems \ {s}, NEW a \in Areas, ~Covers(s, list, a)
    PROVE  Asked(a) => Asked(a)'
  BY DEF Asked, Covers

\* What an import puts into areas is known.
LEMMA ImportGrows ==
    ASSUME IInv, CheckImport
    PROVE  /\ DOMAIN mail' = Areas /\ DOMAIN counted' = Areas
           /\ \A a \in Areas : /\ mail[a] \subseteq mail'[a]
                               /\ counted[a] \subseteq counted'[a] \/ mail[a] \subseteq counted'[a]
  <1>1. CASE packet = {}
    BY <1>1 DEF CheckImport, ImportNothing, IInv, Typed
  <1>2. CASE packet # {}
    <2>1. PICK id : /\ mail' = [a \in Areas |-> IF a \in packet THEN mail[a] \cup {id[a]} ELSE mail[a]]
                    /\ counted' = [a \in Areas |-> IF a \in packet THEN mail'[a] ELSE counted[a]]
      <3> DEFINE new == InOrder(packet)
                 id == [a \in Areas |-> Cardinality(Mail) + AreaIdToNo(new, a)]
      <3>1. /\ mail' = [a \in Areas |-> IF a \in packet THEN mail[a] \cup {id[a]} ELSE mail[a]]
            /\ counted' = [a \in Areas |-> IF a \in packet THEN mail'[a] ELSE counted[a]]
        BY <1>2 DEF CheckImport, ImportPacket
      <3> QED BY <3>1
    <2> QED BY <2>1
  <1> QED BY <1>1, <1>2

LEMMA CheckImportInv == ASSUME IInv, CheckImport PROVE IInv'
  <1>1. /\ pc = "check" /\ pc' = "check" /\ op' = [op EXCEPT !.k = At + 1, !.scanned = TRUE]
        /\ list' = list /\ owed' = owed /\ sems' = sems \ {"qwkimport"}
    BY DEF CheckImport, Checking
  <1>2. DOMAIN op' = Fields /\ op'.caller # "list"
    BY <1>1 DEF IInv, Typed, ScanPlace, Fields
  <1>3. /\ DOMAIN mail' = Areas /\ DOMAIN counted' = Areas
        /\ \A a \in Areas : /\ mail[a] \subseteq mail'[a]
                            /\ counted[a] \subseteq counted'[a] \/ mail[a] \subseteq counted'[a]
    BY ImportGrows
  <1>4. Typed'
    BY <1>1, <1>2, <1>3 DEF IInv, Typed
  <1>5. \A a \in Areas : ~Covers("qwkimport", list, a)
    BY DEF Covers
  <1>6. \A a \in Areas : Asked(a) => Asked(a)'
    BY <1>1, <1>5, OtherFiles
  <1> QED BY <1>1, <1>2, <1>3, <1>4, <1>6, Quiet

LEMMA CheckExitInv == ASSUME IInv, CheckExit PROVE IInv'
  <1>1. /\ pc = "check" /\ pc' = "check" /\ UNCHANGED <<mail, counted, list, owed>>
        /\ \/ op' = [op EXCEPT !.k = At + 1] /\ UNCHANGED sems
           \/ /\ op' = [op EXCEPT !.k = Len(AllKinds) + 1, !.quitall = TRUE]
              /\ sems' = sems \ {"exitnow"}
    BY DEF CheckExit, Checking
  <1>2. DOMAIN op' = Fields /\ op'.caller # "list"
    BY <1>1 DEF IInv, Typed, ScanPlace, Fields
  <1>3. Typed'
    BY <1>1, <1>2 DEF IInv, Typed
  <1>4. \A a \in Areas : ~Covers("exitnow", list, a)
    BY DEF Covers
  <1>5. \A a \in Areas : Asked(a) => Asked(a)'
    BY <1>1, <1>4, OtherFiles, SameFiles
  <1> QED BY <1>1, <1>2, <1>3, <1>5, Quiet

LEMMA ImportCrashInv == ASSUME IInv, ImportCrash PROVE IInv'
  <1>1. /\ pc = "check" /\ pc' = "crashed"
        /\ UNCHANGED <<mail, counted, sems, list, owed, op>>
    BY DEF ImportCrash, Checking
  <1>2. Typed'
    BY <1>1 DEF IInv, Typed
  <1> QED BY <1>1, <1>2, SameFiles, Quiet

\* A semaphore that asks for a scan: while an area is open it is refused, and
\* the file removed; else the scan begins, with that of SCANTHIS read first.
LEMMA CheckScanInv ==
    ASSUME OrderAssumption, IInv, NEW s \in {"scanall", "scanthis", "scannetmail"},
           CheckScan(s)
    PROVE  IInv'
  <1>1. /\ pc = "check" /\ op.caller # "list" /\ AllKinds[At] = s
        /\ UNCHANGED <<mail, list, counted>> /\ Typed
    BY DEF CheckScan, Checking, IInv, ScanPlace
  <1>2. CASE AA \in open
    <2>1. Refuse(s) /\ op' = [op EXCEPT !.k = At + 1] /\ pc' = pc
      BY <1>2 DEF CheckScan
    <2>2. DOMAIN op' = Fields /\ op'.caller = op.caller
      BY <1>1, <2>1 DEF Typed, Fields
    <2>3. /\ DOMAIN owed' = Areas
          /\ \A a \in Areas : /\ owed'[a] \subseteq owed[a]
                              /\ Asked(a) => Asked(a)' \/ owed'[a] = {}
      <3>1. CASE s = "scanthis"
        BY <1>1, <2>1, <3>1, SameFiles DEF Refuse, Typed
      <3>2. CASE s # "scanthis"
        <4>1. /\ sems' = sems \ {s}
              /\ owed' = [a \in Areas |-> IF a \in {b \in Areas : Covers(s, list, b)}
                                          THEN {} ELSE owed[a]]
          BY <2>1, <3>2 DEF Refuse, Forgiven
        <4> QED BY <1>1, <4>1, OtherFiles
      <3> QED BY <3>1, <3>2
    <2>4. Typed'
      BY <1>1, <2>2, <2>3 DEF Typed
    <2> QED BY <1>1, <2>1, <2>2, <2>3, <2>4, Quiet
  <1>3. CASE AA \notin open
    <2>1. UNCHANGED <<sems, owed>>
      BY <1>3 DEF CheckScan
    <2>2. \A a \in Areas : \A m \in owed'[a] : m \in counted[a] \/ Asked(a)'
      BY <1>1, <2>1, SameFiles DEF IInv, Accounted, OnList
    <2>3. CASE s = "scanthis"
      <3>1. op' = [op EXCEPT !.k = At, !.bag = list] /\ pc' = "remove"
        BY <1>3, <2>3 DEF CheckScan
      <3>2. DOMAIN op' = Fields /\ op'.caller = op.caller /\ op'.bag = list
        BY <1>1, <3>1 DEF Typed, Fields
      <3>3. Typed' /\ OwedThere' /\ Accounted'
        BY <1>1, <2>1, <2>2, <3>2 DEF IInv, Typed, OwedThere, Accounted
      <3>4. ScanPlace' /\ AheadOrKnown' /\ ListRead' /\ CopySaved'
        BY <1>1, <3>1, <3>2 DEF ScanPlace, AheadOrKnown, ListRead, CopySaved
      <3> QED BY <3>3, <3>4 DEF IInv
    <2>4. CASE s # "scanthis"
      <3> DEFINE mode == IF s = "scanall" THEN "all" ELSE "netmail"
      <3>1. BeginScan(op.caller, mode, At)
        BY <1>3, <2>4 DEF CheckScan
      <3>2. /\ mode = "current" <=> op.caller = "list"
            /\ mode \in {"startup", "current", "list", "all", "netmail"}
            /\ mode = "all" => AllKinds[At] = "scanall"
            /\ mode = "netmail" => AllKinds[At] = "scannetmail"
        BY <1>1, <2>4
      <3>3. DOMAIN owed' = Areas /\ \A a \in Areas : owed'[a] \subseteq owed[a]
        BY <1>1, <2>1 DEF Typed
      <3> HIDE DEF mode
      <3> QED BY <1>1, <2>2, <3>1, <3>2, <3>3, BeginScanInv
    <2> QED BY <2>3, <2>4
  <1> QED BY <1>2, <1>3

\* The list of SCANTHIS is removed: what it asks for is on the list that was
\* read, or was asked for only afterwards, and is forgiven.
LEMMA RemoveListInv == ASSUME OrderAssumption, IInv, RemoveList PROVE IInv'
  <1>1. /\ pc = "remove" /\ op.caller # "list" /\ UNCHANGED <<mail, counted>>
        /\ sems' = sems \ {"scanthis"} /\ list' = {} /\ Typed
        /\ owed' = IF again THEN Forgiven(list \ op.bag) ELSE owed
        /\ BeginScan(op.caller, "list", op.k)
    BY DEF RemoveList, IInv, ScanPlace
  <1>2. DOMAIN owed' = Areas /\ \A a \in Areas : owed'[a] \subseteq owed[a]
    BY <1>1 DEF Forgiven, Typed
  <1>3. ASSUME NEW a \in Areas, NEW m \in owed'[a]
        PROVE  m \in counted[a] \/ Asked(a)' \/ a \in op.bag
    <2>1. m \in counted[a] \/ Asked(a)
      BY <1>1, <1>2 DEF IInv, Accounted, OnList
    <2>2. CASE Covers("scanthis", list, a)
      <3>1. a \in list
        BY <2>2 DEF Covers
      <3>2. CASE again
        BY <1>1, <1>3, <3>1, <3>2 DEF Forgiven
      <3>3. CASE ~again
        BY <1>1, <3>1, <3>3 DEF IInv, ListRead
      <3> QED BY <3>2, <3>3
    <2>3. CASE ~Covers("scanthis", list, a)
      <3>1. Asked(a) => Asked(a)'
        BY <1>1, <2>3 DEF Asked, Covers
      <3> QED BY <2>1, <3>1
    <2> QED BY <2>2, <2>3
  <1> QED BY <1>1, <1>2, <1>3, BeginScanInv

-----------------------------------------------------------------------------
\* One area is scanned, or passed by.
LEMMA ScanAreaInv == ASSUME OrderAssumption, IInv, ScanArea PROVE IInv'
  <1> DEFINE here == idx[op.n]
  <1>1. /\ pc = "scan" /\ UNCHANGED <<outside, idx, pc>> /\ op' = [op EXCEPT !.n = @ + 1]
        /\ counted' = IF Selected(here, op.n) THEN [counted EXCEPT ![here] = mail[here]]
                      ELSE counted
    BY DEF ScanArea
  <1>2. Typed /\ OwedThere /\ ScanPlace /\ op.n \in Nat \ {0}
    BY <1>1 DEF IInv, ScanPlace
  <1>3. /\ DOMAIN op' = Fields /\ op'.n = op.n + 1
        /\ op'.mode = op.mode /\ op'.caller = op.caller /\ op'.k = op.k
        /\ op'.bag = op.bag /\ op'.broken = op.broken
    BY <1>1, <1>2 DEF Typed, Fields
  <1>4. Typed' /\ OwedThere' /\ ScanPlace'
    BY <1>1, <1>2, <1>3 DEF Typed, OwedThere, ScanPlace, Kind, outside
  <1>5. ASSUME NEW a \in Areas PROVE Ahead(a) => a = here \/ Ahead(a)'
    BY <1>1, <1>2, <1>3 DEF Ahead, ScanPlace, OrderAssumption
  <1>6. ASSUME NEW a \in Areas, NEW m \in owed[a], m \in counted[a] PROVE m \in counted'[a]
    BY <1>1, <1>2, <1>6 DEF Typed, OwedThere
  <1>7. ASSUME NEW a \in Areas, a = here, Selected(here, op.n), NEW m \in owed[a]
        PROVE  m \in counted'[a]
    BY <1>1, <1>2, <1>7 DEF Typed, OwedThere
  <1>8. ASSUME NEW a \in Areas, NEW m \in owed[a]
        PROVE  m \in counted'[a] \/ Asked(a)' \/ OnList(a)'
    <2>1. Asked(a)' = Asked(a)
      BY <1>1, SameFiles DEF outside
    <2>2. CASE OnList(a)
      <3>1. a = here => Selected(here, op.n)
        BY <2>2 DEF OnList, Selected
      <3> QED BY <1>1, <1>3, <1>5, <1>7, <2>2, <3>1 DEF OnList
    <2>3. CASE ~OnList(a)
      BY <1>6, <2>1, <2>3 DEF IInv, Accounted
    <2> QED BY <2>2, <2>3
  <1>9. Accounted'
    BY <1>1, <1>8 DEF Accounted, outside
  <1>10. AheadOrKnown'
    <2> SUFFICES ASSUME op.mode \in {"all", "netmail"}, ~op.broken, ~again,
                        NEW a \in Areas, Covers(Kind, list, a), NEW m \in owed[a]
                 PROVE  m \in counted'[a] \/ Ahead(a)'
      BY <1>1, <1>3 DEF AheadOrKnown, Kind, Covers, outside
    <2>1. m \in counted[a] \/ Ahead(a)
      BY <1>1 DEF IInv, AheadOrKnown
    <2>2. a = here => Selected(here, op.n)
      BY <1>1, <1>2 DEF ScanPlace, Covers, Selected
    <2> QED BY <1>5, <1>6, <1>7, <2>1, <2>2
  <1>11. ListRead' /\ CopySaved'
    BY <1>1 DEF ListRead, CopySaved
  <1> QED BY <1>4, <1>9, <1>10, <1>11 DEF IInv

LEMMA ScanEscapeInv == ASSUME OrderAssumption, IInv, ScanEscape PROVE IInv'
  <1>1. /\ pc = "scan" /\ UNCHANGED <<outside, counted, idx, pc>>
        /\ op' = [op EXCEPT !.n = Len(idx) + 1, !.broken = TRUE]
    BY DEF ScanEscape
  <1>2. Typed /\ OwedThere /\ ScanPlace /\ Len(idx) \in Nat
    BY <1>1 DEF IInv, ScanPlace, OrderAssumption
  <1>3. /\ DOMAIN op' = Fields /\ op'.n = Len(idx) + 1 /\ op'.broken = TRUE
        /\ op'.mode = op.mode /\ op'.caller = op.caller /\ op'.k = op.k /\ op'.bag = op.bag
    BY <1>1, <1>2 DEF Typed, Fields
  <1>4. Typed' /\ OwedThere' /\ ScanPlace'
    BY <1>1, <1>2, <1>3 DEF Typed, OwedThere, ScanPlace, Kind, outside
  <1>5. Accounted'
    BY <1>1, <1>3 DEF IInv, Accounted, Asked, Covers, OnList, outside
  <1>6. AheadOrKnown' /\ ListRead' /\ CopySaved'
    BY <1>1, <1>3 DEF AheadOrKnown, ListRead, CopySaved
  <1> QED BY <1>4, <1>5, <1>6 DEF IInv

\* A scan that has come to its end has no area ahead.
LEMMA NoneAhead ==
    ASSUME OrderAssumption, IInv, pc = "scan", op.n > Len(idx), NEW a PROVE ~Ahead(a)
  BY DEF IInv, ScanPlace, OrderAssumption, Ahead

LEMMA StartupScannedInv == ASSUME OrderAssumption, IInv, StartupScanned PROVE IInv'
  <1>1. /\ pc = "scan" /\ op.mode = "startup" /\ pc' = "check"
        /\ UNCHANGED <<outside, counted>> /\ op' = [NoOp EXCEPT !.caller = "startup"]
    BY DEF StartupScanned
  <1>2. DOMAIN op' = Fields /\ op'.caller = "startup"
    BY <1>1, NoOpFields DEF Fields
  <1>3. Typed' /\ OwedThere'
    BY <1>1, <1>2 DEF IInv, Typed, OwedThere, outside
  <1>4. \A a \in Areas : \A m \in owed'[a] : m \in counted'[a] \/ Asked(a)'
    BY <1>1, SameFiles DEF outside, IInv, Accounted, OnList
  <1> QED BY <1>1, <1>2, <1>3, <1>4, Rests

LEMMA ListScannedInv == ASSUME OrderAssumption, IInv, ListScanned PROVE IInv'
  <1>1. /\ pc = "scan" /\ op.caller = "list" /\ pc' = "list"
        /\ UNCHANGED <<outside, counted>> /\ op' = Picking
    BY DEF ListScanned
  <1>2. DOMAIN op' = Fields
    BY <1>1, NoOpFields DEF Picking, Fields
  <1>3. Typed' /\ OwedThere'
    BY <1>1, <1>2 DEF IInv, Typed, OwedThere, outside
  <1>4. op.mode = "current"
    BY <1>1 DEF IInv, ScanPlace
  <1>5. \A a \in Areas : \A m \in owed'[a] : m \in counted'[a] \/ Asked(a)'
    BY <1>1, <1>4, SameFiles DEF outside, IInv, Accounted, OnList
  <1> QED BY <1>1, <1>3, <1>5, Rests

\* The scan for a semaphore is over: the file goes, with what was asked for
\* in vain forgiven, unless it was that of SCANTHIS, which had gone before.
LEMMA CheckScannedInv == ASSUME OrderAssumption, IInv, CheckScanned PROVE IInv'
  <1>1. /\ pc = "scan" /\ op.n > Len(idx) /\ op.caller # "list" /\ op.mode # "startup"
        /\ pc' = "check" /\ UNCHANGED <<mail, list, counted>>
    BY DEF CheckScanned
  <1>2. /\ Typed /\ OwedThere /\ op.mode \in {"list", "all", "netmail"}
        /\ \A a : ~Ahead(a)
    BY <1>1, NoneAhead DEF IInv, ScanPlace
  <1>3. DOMAIN op' = Fields /\ op'.caller = op.caller
    BY <1>2 DEF CheckScanned, Typed, Fields
  <1>4. CASE op.mode = "list"
    <2>1. UNCHANGED sems /\ owed' = IF op.broken THEN Forgiven(op.bag) ELSE owed
      BY <1>4 DEF CheckScanned
    <2>2. DOMAIN owed' = Areas /\ \A a \in Areas : owed'[a] \subseteq owed[a]
      BY <1>2, <2>1 DEF Forgiven, Typed
    <2>3. ASSUME NEW a \in Areas, NEW m \in owed'[a] PROVE m \in counted'[a] \/ Asked(a)'
      <3>1. m \in counted[a] \/ Asked(a) \/ OnList(a)
        BY <2>2, <2>3 DEF IInv, Accounted
      <3>2. ~OnList(a)
        BY <1>2, <2>1, <2>3 DEF OnList, Forgiven
      <3> QED BY <1>1, <2>1, <3>1, <3>2, SameFiles
    <2>4. Typed' /\ OwedThere'
      BY <1>1, <1>2, <1>3, <2>2 DEF Typed, OwedThere
    <2> QED BY <1>1, <1>3, <2>3, <2>4, Rests
  <1>5. CASE op.mode # "list"
    <2>1. /\ sems' = sems \ {Kind}
          /\ owed' = IF op.broken \/ again
                     THEN Forgiven({a \in Areas : Covers(Kind, list, a)}) ELSE owed
      BY <1>5 DEF CheckScanned, Done
    <2>2. DOMAIN owed' = Areas /\ \A a \in Areas : owed'[a] \subseteq owed[a]
      BY <1>2, <2>1 DEF Forgiven, Typed
    <2>3. ASSUME NEW a \in Areas, NEW m \in owed'[a] PROVE m \in counted'[a] \/ Asked(a)'
      <3>1. CASE Covers(Kind, list, a)
        <4>1. ~op.broken /\ ~again
          BY <2>1, <2>3, <3>1 DEF Forgiven
        <4> QED BY <1>1, <1>2, <1>5, <2>2, <2>3, <3>1, <4>1 DEF IInv, AheadOrKnown
      <3>2. CASE ~Covers(Kind, list, a)
        <4>1. m \in counted[a] \/ Asked(a)
          BY <1>5, <2>2, <2>3 DEF IInv, Accounted, OnList
        <4> QED BY <1>1, <2>1, <3>2, <4>1, OtherFiles
      <3> QED BY <3>1, <3>2
    <2>4. Typed' /\ OwedThere'
      BY <1>1, <1>2, <1>3, <2>2 DEF Typed, OwedThere
    <2> QED BY <1>1, <1>3, <2>3, <2>4, Rests
  <1> QED BY <1>4, <1>5

LEMMA CheckDoneInv == ASSUME IInv, CheckDone PROVE IInv'
  <1>1. /\ pc = "check" /\ pc' \in {"list", "quit"} /\ op' \in {NoOp, Picking}
        /\ UNCHANGED <<outside, counted>>
    BY DEF CheckDone
  <1>2. DOMAIN op' = Fields
    BY <1>1, NoOpFields DEF Picking, Fields
  <1>3. Typed'
    BY <1>1, <1>2 DEF outside, IInv, Typed
  <1> QED BY <1>1, <1>3, SameFiles, Quiet DEF outside

-----------------------------------------------------------------------------
\* What the user does in the list and in the reader asks for nothing new, and
\* what is counted only grows: an area that is opened is scanned.
LEMMA UserQuiet ==
    ASSUME IInv, pc # "scan", UNCHANGED outside, DOMAIN op' = Fields,
           pc' \in {"list", "reader", "crashed"},
           \/ UNCHANGED counted
           \/ \E x \in Areas : counted' = [counted EXCEPT ![x] = mail[x]]
           \/ \E x : x \notin Areas /\ counted' = [counted EXCEPT ![x] = mail[x]]
    PROVE  IInv'
  <1>1. /\ DOMAIN counted' = Areas
        /\ \A a \in Areas : counted[a] \subseteq counted'[a] \/ mail[a] \subseteq counted'[a]
    BY DEF IInv, Typed
  <1>2. Typed'
    BY <1>1 DEF IInv, Typed, outside
  <1> QED BY <1>1, <1>2, SameFiles, Quiet DEF outside

LEMMA ReadAreaInv ==
    ASSUME IInv, pc # "scan", UNCHANGED outside, NEW a, ReadArea(a)
    PROVE  IInv'
  <1>1. pc' = "reader" /\ op' = NoOp /\ counted' = [counted EXCEPT ![a] = mail[a]]
    BY DEF ReadArea
  <1> QED BY <1>1, NoOpFields, UserQuiet

LEMMA ListInv ==
    ASSUME IInv, MoveBar \/ SelectArea \/ Abort \/ AbortDest
    PROVE  IInv'
  <1>1. pc = "list" /\ UNCHANGED outside
    BY DEF MoveBar, SelectArea, Abort, AbortDest
  <1>2. DOMAIN op = Fields
    BY DEF IInv, Typed
  <1>3. CASE MoveBar
    BY <1>1, <1>2, <1>3, UserQuiet DEF MoveBar
  <1>4. CASE SelectArea
    BY <1>1, <1>4, ReadAreaInv DEF SelectArea
  <1>5. CASE Abort
    <2>1. PICK a : ReadArea(a) \/ (pc' = "crashed" /\ UNCHANGED <<counted, op>>)
      BY <1>5 DEF Abort
    <2> QED BY <1>1, <1>2, <2>1, ReadAreaInv, UserQuiet
  <1>6. CASE AbortDest
    BY <1>1, <1>6, NoOpFields, UserQuiet DEF AbortDest
  <1> QED BY <1>3, <1>4, <1>5, <1>6

LEMMA ScanKeyInv == ASSUME OrderAssumption, IInv, ScanKey("current") PROVE IInv'
  <1>1. pc = "list" /\ UNCHANGED <<outside, counted>> /\ Typed
    BY DEF ScanKey, IInv
  <1>2. CASE AA \in open
    BY <1>1, <1>2, UserQuiet DEF ScanKey, Typed
  <1>3. CASE AA \notin open
    <2>1. BeginScan("list", "current", 1)
      BY <1>3 DEF ScanKey
    <2>2. \A a \in Areas : \A m \in owed'[a] : m \in counted[a] \/ Asked(a)'
      BY <1>1, SameFiles DEF outside, IInv, Accounted, OnList
    <2> QED BY <1>1, <2>1, <2>2, BeginScanInv DEF outside, Typed
  <1> QED BY <1>2, <1>3

LEMMA ReaderInv ==
    ASSUME IInv, NewArea \/ JumpNext \/ PickDest \/ \E d \in {-1, 1} : StepArea(d)
    PROVE  IInv'
  <1>1. pc = "reader" /\ UNCHANGED outside
    BY DEF NewArea, JumpNext, PickDest, StepArea, Reading
  <1>2. DOMAIN op = Fields
    BY DEF IInv, Typed
  <1>3. ASSUME NEW pick, NEW oidx, ShowList(pick, oidx)
        PROVE  pc' = "list" /\ DOMAIN op' = Fields
    BY <1>3, NoOpFields DEF ShowList, Fields
  <1>4. CASE NewArea
    BY <1>1, <1>3, <1>4, UserQuiet DEF NewArea
  <1>5. CASE JumpNext
    <2>1. \/ UNCHANGED counted /\ \E n : ShowList("new", n)
          \/ UNCHANGED <<pc, op>> /\ \E x : counted' = [counted EXCEPT ![x] = mail[x]]
      BY <1>5 DEF JumpNext
    <2> QED BY <1>1, <1>2, <1>3, <2>1, UserQuiet
  <1>6. CASE PickDest
    <2>1. /\ pc' = "list" /\ UNCHANGED counted
          /\ \E todo, move : op' = [NoOp EXCEPT !.pick = "dest", !.move = move, !.todo = todo]
      BY <1>6 DEF PickDest
    <2>2. DOMAIN op' = Fields
      BY <2>1, NoOpFields DEF Fields
    <2> QED BY <1>1, <2>1, <2>2, UserQuiet
  <1>7. CASE \E d \in {-1, 1} : StepArea(d)
    <2>1. UNCHANGED <<pc, op>> /\ \E x : counted' = [counted EXCEPT ![x] = mail[x]]
      BY <1>7 DEF StepArea
    <2> QED BY <1>1, <1>2, <2>1, UserQuiet
  <1> QED BY <1>4, <1>5, <1>6, <1>7

-----------------------------------------------------------------------------
\* What copies and moves messages, or ends that.
LEMMA Moves ==
    ASSUME IInv, Typed', OwedThere', CopySaved', pc # "scan", pc' \in {"move", "delete"},
           UNCHANGED <<sems, list>>,
           \A a \in Areas : \A m \in owed'[a] : m \in owed[a] /\ (m \in counted[a] => m \in counted'[a])
    PROVE  IInv'
  <1>1. ScanPlace' /\ AheadOrKnown' /\ ListRead'
    BY DEF ScanPlace, AheadOrKnown, ListRead
  <1>2. Accounted'
    BY SameFiles DEF IInv, Accounted, OnList
  <1> QED BY <1>1, <1>2 DEF IInv

LEMMA SelectDestInv == ASSUME IInv, SelectDest PROVE IInv'
  <1>1. PICK a \in Areas \ {OrigArea} :
            IF OrigArea \in open
            THEN /\ counted' = [counted EXCEPT ![a] = mail[a]]
                 /\ op' = [op EXCEPT !.dest = a] /\ pc' = "move"
            ELSE pc' = "crashed" /\ UNCHANGED <<counted, op>>
    BY DEF SelectDest
  <1>2. pc = "list" /\ UNCHANGED <<outside, OrigArea>> /\ Typed /\ OwedThere
    BY DEF SelectDest, IInv
  <1>3. CASE OrigArea \in open
    <2>1. DOMAIN op' = Fields /\ op'.dest = a
      BY <1>1, <1>2, <1>3 DEF Typed, Fields
    <2>2. CopySaved'
      BY <1>1, <1>2, <1>3, <2>1 DEF CopySaved
    <2>3. Typed' /\ OwedThere'
      BY <1>1, <1>2, <1>3, <2>1 DEF Typed, OwedThere, outside
    <2>4. \A b \in Areas : \A m \in owed[b] : m \in counted[b] => m \in counted'[b]
      BY <1>1, <1>2, <1>3 DEF Typed, OwedThere
    <2> QED BY <1>1, <1>2, <1>3, <2>2, <2>3, <2>4, Moves DEF outside
  <1>4. CASE OrigArea \notin open
    BY <1>1, <1>2, <1>4, UserQuiet DEF Typed
  <1> QED BY <1>3, <1>4

LEMMA CopyMsgInv == ASSUME IInv, CopyMsg PROVE IInv'
  <1>1. /\ pc = "move" /\ UNCHANGED <<sems, list, owed, OrigArea>>
        /\ Typed /\ OwedThere /\ CopySaved
    BY DEF CopyMsg, current, IInv
  <1>2. PICK m \in op.todo :
            /\ m = Current
            /\ mail' = Half(1, mail, m) /\ counted' = Half(1, counted, m)
            /\ IF op.move THEN pc' = "delete" /\ UNCHANGED op
               ELSE op' = [op EXCEPT !.todo = @ \ {m}] /\ UNCHANGED pc
    BY DEF CopyMsg, Current
  <1>3. /\ DOMAIN mail' = Areas /\ DOMAIN counted' = Areas
        /\ \A a \in Areas : mail[a] \subseteq mail'[a] /\ counted[a] \subseteq counted'[a]
        /\ op.dest \in Areas \ {OrigArea} /\ m \in mail'[op.dest]
    <2>1. DOMAIN mail = Areas /\ DOMAIN counted = Areas /\ op.dest \in Areas \ {OrigArea}
      BY <1>1 DEF Typed, CopySaved
    <2> QED BY <1>1, <1>2, <2>1 DEF Half, HalfOf
  <1>4. DOMAIN op' = Fields /\ op'.dest = op.dest
    BY <1>1, <1>2 DEF Typed, Fields
  <1>5. Typed' /\ OwedThere'
    BY <1>1, <1>3, <1>4 DEF Typed, OwedThere
  <1>6. pc' \in {"move", "delete"} /\ (pc' = "delete" => op' = op)
    BY <1>1, <1>2
  <1>7. CopySaved'
    BY <1>1, <1>2, <1>3, <1>4, <1>6 DEF CopySaved, Current
  <1> QED BY <1>1, <1>3, <1>5, <1>6, <1>7, Moves

LEMMA DeleteMsgInv == ASSUME IInv, DeleteMsg PROVE IInv'
  <1>1. /\ pc = "delete" /\ pc' = "move" /\ UNCHANGED <<sems, list, OrigArea>>
        /\ mail' = Half(2, mail, Current) /\ counted' = Half(2, counted, Current)
        /\ owed' = [owed EXCEPT ![OrigArea] = @ \ {Current}]
        /\ op' = [op EXCEPT !.todo = @ \ {Current}]
        /\ Typed /\ OwedThere /\ CopySaved
    BY DEF DeleteMsg, Current, current, IInv
  <1>2. DOMAIN op' = Fields /\ op'.dest = op.dest
    BY <1>1 DEF Typed, Fields
  <1>3. /\ DOMAIN mail' = Areas /\ DOMAIN counted' = Areas
        /\ \A a \in Areas : /\ mail'[a] = IF a = OrigArea THEN mail[a] \ {Current} ELSE mail[a]
                            /\ counted'[a] = IF a = OrigArea THEN counted[a] \ {Current} ELSE counted[a]
    <2>1. DOMAIN mail = Areas /\ DOMAIN counted = Areas
      BY <1>1 DEF Typed
    <2> QED BY <1>1, <2>1 DEF Half, HalfOf
  <1>4. /\ DOMAIN owed' = Areas
        /\ \A a \in Areas : owed'[a] = IF a = OrigArea THEN owed[a] \ {Current} ELSE owed[a]
    BY <1>1 DEF Typed
  <1>t. Typed'
    BY <1>2, <1>3, <1>4 DEF Typed
  <1>o. OwedThere'
    BY <1>1, <1>3, <1>4 DEF OwedThere
  <1>5. Typed' /\ OwedThere'
    BY <1>t, <1>o
  <1>6. CopySaved'
    BY <1>1, <1>2 DEF CopySaved
  <1> QED BY <1>1, <1>3, <1>4, <1>5, <1>6, Moves

LEMMA EndMoveInv == ASSUME IInv, EndMove PROVE IInv'
  <1>1. pc = "move" /\ pc' = "reader" /\ op' = NoOp /\ UNCHANGED <<outside, counted>>
    BY DEF EndMove
  <1> QED BY <1>1, NoOpFields, UserQuiet

\* The program is killed: what was asked for counts if the file is there.
LEMMA KillInv == ASSUME IInv, Kill PROVE IInv'
  <1>1. /\ pc' = "start" /\ op' = NoOp /\ UNCHANGED <<mail, sems, list>>
        /\ counted' = [a \in Areas |-> {}]
        /\ owed' = [a \in Areas |-> IF Asked(a) THEN owed[a] ELSE {}]
    BY DEF Kill, Asked
  <1>2. Typed' /\ OwedThere'
    BY <1>1, NoOpFields DEF IInv, Typed, OwedThere
  <1>3. \A a \in Areas : \A m \in owed'[a] : Asked(a)'
    BY <1>1, SameFiles
  <1> QED BY <1>1, <1>2, <1>3, Rests

-----------------------------------------------------------------------------
LEMMA InvNext == ASSUME OrderAssumption PROVE IInv /\ [Next]_vars => IInv'
  <1> SUFFICES ASSUME IInv, [Next]_vars PROVE IInv'
    OBVIOUS
  <1>1. CASE Startup \/ Tick
    BY <1>1, StartupInv, TickInv
  <1>2. CASE Scan
    BY <1>2, ScanAreaInv, ScanEscapeInv, StartupScannedInv, CheckScannedInv, ListScannedInv
       DEF Scan
  <1>3. CASE Check
    BY <1>3, CheckImportInv, ImportCrashInv, CheckExitInv, RemoveListInv, CheckDoneInv,
       CheckScanInv DEF Check
  <1>4. CASE User
    BY <1>4, ListInv, SelectDestInv, ScanKeyInv, ReaderInv DEF User
  <1>5. CASE Move \/ Kill
    BY <1>5, CopyMsgInv, DeleteMsgInv, EndMoveInv, KillInv DEF Move
  <1>6. CASE \/ \E a \in Areas : Toss(a)
             \/ \E s \in Kinds : Touch(s)
    BY <1>6, TossInv, TouchInv
  <1>7. CASE UNCHANGED vars
    <2>1. UNCHANGED <<mail, sems, list, owed, again, counted, idx, OrigArea, pc, op>>
      BY <1>7 DEF vars, outside, current
    <2>2. Typed' /\ OwedThere' /\ ListRead' /\ CopySaved'
      BY <2>1 DEF IInv, Typed, OwedThere, ListRead, CopySaved, Current
    <2>3. ScanPlace'
      BY <2>1 DEF IInv, ScanPlace, Kind
    <2>4. Accounted' /\ AheadOrKnown'
      BY <2>1 DEF IInv, Accounted, AheadOrKnown, Asked, Covers, OnList, Ahead, Kind
    <2> QED BY <2>2, <2>3, <2>4 DEF IInv
  <1> QED BY <1>1, <1>2, <1>3, <1>4, <1>5, <1>6, <1>7 DEF Next

\* The inductive invariant holds in every reachable state.
THEOREM AreasInvariance == Spec => []IInv
  <1>1. IInv /\ [Next]_vars => IInv'
    BY InvNext, OrderAssumption
  <1> QED BY <1>1, InvInit, PTL DEF Spec

\* While the list is shown and no semaphore is there, all that one asked to
\* be counted (before its scan began, and if nobody cut that short) is counted,
\* however tossers, semaphores, scans, imports and kills fell together
\* (CheckSemaphores and AreaScan, gescan.cpp).
THEOREM NoneOverlooked == Spec => []NothingOverlooked
  <1>1. IInv => NothingOverlooked
    BY DEF IInv, Accounted, Asked, OnList, NothingOverlooked
  <1> QED BY <1>1, AreasInvariance, PTL

-----------------------------------------------------------------------------
\* All but the second half of a move leave every message where it is.
LEMMA MailGrows ==
    ASSUME IInv, [Next]_vars, ~DeleteMsg, NEW a \in Areas
    PROVE  mail[a] \subseteq mail'[a]
  <1>1. DOMAIN mail = Areas
    BY DEF IInv, Typed
  <1>2. CASE Startup \/ Tick \/ Scan
    BY <1>2 DEF Startup, Tick, Scan, ScanArea, ScanEscape, StartupScanned, CheckScanned,
                ListScanned, outside
  <1>3. CASE Check
    BY <1>3, ImportGrows DEF Check, ImportCrash, CheckExit, RemoveList, CheckDone, CheckScan, outside
  <1>4. CASE User
    BY <1>4 DEF User, MoveBar, SelectArea, SelectDest, Abort, AbortDest, ScanKey,
                NewArea, JumpNext, PickDest, StepArea, outside
  <1>5. CASE CopyMsg
    BY <1>1, <1>5 DEF CopyMsg, Half, HalfOf
  <1>6. CASE EndMove \/ Kill
    BY <1>6 DEF EndMove, Kill, outside
  <1>7. CASE \/ \E b \in Areas : Toss(b)
             \/ \E s \in Kinds : Touch(s)
    BY <1>1, <1>7 DEF Toss, Touch
  <1>8. CASE UNCHANGED vars
    BY <1>8 DEF vars, outside
  <1> QED BY <1>2, <1>3, <1>4, <1>5, <1>6, <1>7, <1>8 DEF Next, Move

\* A move takes a message from an area only when it is in another.
LEMMA MailStays == ASSUME IInv, [Next]_vars PROVE Mail \subseteq Mail'
  <1>1. CASE DeleteMsg
    <2>1. /\ pc = "delete" /\ mail' = Half(2, mail, Current)
          /\ DOMAIN mail = Areas
          /\ op.dest \in Areas \ {OrigArea} /\ Current \in mail[op.dest]
      BY <1>1 DEF DeleteMsg, Current, IInv, Typed, CopySaved
    <2>2. \A a \in Areas : mail'[a] = IF a = OrigArea THEN mail[a] \ {Current} ELSE mail[a]
      <3>1. mail' = [mail EXCEPT ![OrigArea] = @ \ {Current}]
        BY <2>1 DEF Half, HalfOf
      <3>2. DOMAIN mail = Areas
        BY <2>1
      <3> QED BY <3>1, <3>2
    <2>3. Current \in mail'[op.dest]
      BY <2>1, <2>2
    <2>4. \A a \in Areas : \A m \in mail[a] : m = Current \/ m \in mail'[a]
      BY <2>2
    <2>5. \A m : m \in Mail => \E a \in Areas : m \in mail'[a]
      BY <2>1, <2>3, <2>4 DEF Mail
    <2> QED BY <2>5 DEF Mail
  <1>2. CASE ~DeleteMsg
    <2>1. \A a \in Areas : mail[a] \subseteq mail'[a]
      BY <1>2, MailGrows
    <2> QED BY <2>1 DEF Mail
  <1> QED BY <1>1, <1>2

\* No step of the program or of anyone else, a kill included, makes a message
\* disappear from all areas: CmfMsgs saves the copy before it deletes the
\* original (gecmfd.cpp).
THEOREM NoneLost == Spec => NothingLost
  <1>1. IInv /\ [Next]_vars => [Mail \subseteq Mail']_vars
    BY MailStays
  <1> QED BY <1>1, AreasInvariance, PTL DEF Spec, NothingLost

-----------------------------------------------------------------------------
\* A scan of the area under the bar finds it by its number, which it looked up
\* again after the list was sorted, and counts no other (AreaScan, gescan.cpp).
THEOREM CurrentScanned == Spec => ScansCurrent
  <1> DEFINE Right ==
        \A a \in Areas : pc = "scan" /\ op.mode = "current" /\ ~(counted'[a] \subseteq counted[a])
                         => a = op.stecho
  <1>1. ASSUME IInv, [Next]_vars PROVE Right
    <2> SUFFICES ASSUME NEW a \in Areas, pc = "scan", op.mode = "current",
                        ~(counted'[a] \subseteq counted[a])
                 PROVE  a = op.stecho
      OBVIOUS
    <2>1. CASE ScanArea
      <3>1. /\ Selected(idx[op.n], op.n) /\ a = idx[op.n]
        BY <2>1 DEF ScanArea, IInv, Typed
      <3>2. op.n = AreaIdToNo(idx, op.stecho) /\ op.n # 0
        BY <1>1, <3>1 DEF Selected, IInv, ScanPlace
      <3>3. \E i \in DOMAIN idx : idx[i] = op.stecho
        BY <3>2 DEF AreaIdToNo
      <3>4. idx[op.n] = op.stecho
        BY <3>2, <3>3 DEF AreaIdToNo
      <3> QED BY <3>1, <3>4
    <2>2. CASE ~ScanArea
      <3>1. UNCHANGED counted \/ Kill
        <4>1. CASE Scan
          BY <2>2, <4>1 DEF Scan, ScanEscape, StartupScanned, CheckScanned, ListScanned
        <4>2. ~Startup /\ ~Tick /\ ~Check /\ ~User /\ ~Move
          BY DEF Startup, Tick, Check, CheckImport, ImportCrash, CheckExit, CheckScan, Checking,
                 RemoveList, CheckDone, User, MoveBar, SelectArea, SelectDest, Abort,
                 AbortDest, ScanKey, NewArea, JumpNext, PickDest, StepArea, Reading,
                 Move, CopyMsg, DeleteMsg, EndMove
        <4>3. CASE \/ \E b \in Areas : Toss(b)
                   \/ \E s \in Kinds : Touch(s)
                   \/ UNCHANGED vars
          BY <4>3 DEF Toss, Touch, vars
        <4> QED BY <1>1, <4>1, <4>2, <4>3 DEF Next
      <3>2. CASE Kill
        BY <3>2 DEF Kill
      <3> QED BY <3>1, <3>2
    <2> QED BY <2>1, <2>2
  <1>2. IInv /\ [Next]_vars => [Right]_vars
    BY <1>1
  <1> QED BY <1>2, AreasInvariance, PTL DEF Spec, ScansCurrent
-----------------------------------------------------------------------------
\* The order of the list.

LEMMA AreasBounded == \E n \in Nat : Areas \subseteq 1..n
  BY AreaAssumption, FiniteBounded DEF AreaAssumption

\* All of some areas, each once.
OrderOf(s, S) == s \in Seq(S) /\ Len(s) = Cardinality(S) /\ Range(s) = S

LEMMA InOrderIs ==
    ASSUME NEW S, S \subseteq Areas
    PROVE  OrderOf(InOrder(S), S) /\ IsFiniteSet(S) /\ Cardinality(S) \in Nat
  <1>1. PICK n \in Nat : S \subseteq 1..n
    BY AreasBounded
  <1>2. Rises(InOrder(S), S) /\ Len(InOrder(S)) = Cardinality(S)
    BY <1>1, InOrderRises
  <1>3. InOrder(S) \in Seq(Nat) /\ Range(InOrder(S)) = S
    BY <1>2 DEF Rises
  <1>4. InOrder(S) \in Seq(S)
    BY <1>3 DEF Range
  <1>5. IsFiniteSet(S)
    BY AreaAssumption, FS_Subset DEF AreaAssumption
  <1> QED BY <1>2, <1>3, <1>4, <1>5, FS_CardinalityType DEF OrderOf

\* The list is sorted.
LEMMA SortedIs == ASSUME NEW c, NEW r PROVE OrderOf(Sorted(c, r), Areas)
  <1> DEFINE new == {a \in Areas : Unread(a, c, r)}
             old == Areas \ new
             s == InOrder(new)
             t == InOrder(old)
  <1>1. new \subseteq Areas /\ old \subseteq Areas /\ new \cup old = Areas /\ new \cap old = {}
    OBVIOUS
  <1>2. Sorted(c, r) = s \o t
    BY DEF Sorted
  <1> HIDE DEF new, old
  <1>3. OrderOf(s, new) /\ OrderOf(t, old)
    BY <1>1, InOrderIs
  <1>4. IsFiniteSet(new) /\ IsFiniteSet(old) /\ Cardinality(new) \in Nat /\ Cardinality(old) \in Nat
    BY <1>1, InOrderIs
  <1>5. Cardinality(Areas) = Cardinality(new) + Cardinality(old)
    <2>1. PICK n \in Nat : n = Cardinality(new)
      BY <1>4
    <2>2. PICK o \in Nat : o = Cardinality(old)
      BY <1>4
    <2>3. Cardinality(new \cap old) = 0
      BY <1>1, FS_EmptySet
    <2>4. Cardinality(new \cup old) = n + o - 0
      BY <1>4, <2>1, <2>2, <2>3, FS_Union
    <2>5. Cardinality(new \cup old) = Cardinality(Areas)
      BY <1>1, Zenon
    <2> QED BY <2>1, <2>2, <2>4, <2>5
  <1> HIDE DEF s, t
  <1>6. s \in Seq(Areas) /\ t \in Seq(Areas) /\ Len(s) \in Nat /\ Len(t) \in Nat
    BY <1>1, <1>3 DEF OrderOf
  <1>7. /\ s \o t \in Seq(Areas) /\ Len(s \o t) = Len(s) + Len(t)
        /\ \A i \in 1..(Len(s) + Len(t)) : (s \o t)[i] = IF i <= Len(s) THEN s[i] ELSE t[i - Len(s)]
    BY <1>6
  <1>8. Len(s \o t) = Cardinality(Areas)
    BY <1>3, <1>5, <1>7 DEF OrderOf
  <1>9. Areas \subseteq Range(s \o t)
    <2> SUFFICES ASSUME NEW a \in Areas PROVE \E i \in DOMAIN (s \o t) : (s \o t)[i] = a
      BY DEF Range
    <2>0. DOMAIN (s \o t) = 1..(Len(s) + Len(t)) /\ DOMAIN s = 1..Len(s) /\ DOMAIN t = 1..Len(t)
      BY <1>6, <1>7
    <2>1. CASE a \in new
      <3>1. PICK i \in DOMAIN s : s[i] = a
        BY <1>3, <2>1 DEF OrderOf, Range
      <3>2. i \in 1..(Len(s) + Len(t)) /\ i <= Len(s)
        BY <1>6, <2>0
      <3> QED BY <1>7, <2>0, <3>1, <3>2
    <2>2. CASE a \notin new
      <3>1. PICK i \in DOMAIN t : t[i] = a
        BY <1>1, <1>3, <2>2 DEF OrderOf, Range
      <3>2. PICK m \in Nat : m = Len(s)
        BY <1>6
      <3>3. i \in Nat /\ i >= 1 /\ i <= Len(t)
        BY <1>6, <2>0
      <3>4. m + i \in 1..(m + Len(t)) /\ ~(m + i <= m) /\ (m + i) - m = i
        BY <1>6, <3>3
      <3> QED BY <1>7, <2>0, <3>1, <3>2, <3>4
    <2> QED BY <2>1, <2>2
  <1>10. Range(s \o t) \subseteq Areas
    BY <1>7 DEF Range
  <1> QED BY <1>2, <1>7, <1>8, <1>9, <1>10 DEF OrderOf

-----------------------------------------------------------------------------
\* The types: the files and what is known of them, which has room for the
\* messages of the packet ...

Filed ==
    /\ mail \in [Areas -> SUBSET (1..MaxMail)] /\ read \in [Areas -> SUBSET (1..MaxMail)]
    /\ \A a \in Areas : counted[a] \subseteq mail[a]
    /\ sems \subseteq Kinds /\ again \in BOOLEAN /\ list \subseteq Areas /\ packet \subseteq Areas
    /\ Cardinality(Mail) + Cardinality(packet) <= MaxMail

Total == Cardinality(Areas)

Places == {"start", "scan", "check", "remove", "list", "reader", "move", "delete",
           "quit", "crashed"}

\* ... and what the program shows: an order of all areas, with the bar in it,
\* and one open area, or that of the messages that are moved and where they go.
Shown ==
    /\ OrderOf(idx, Areas) /\ index \in 1..Total
    /\ {AA, CurrArea, OrigArea} \subseteq Areas \cup {0}
    /\ open \subseteq Areas
    /\ IF pc \in {"move", "delete"} THEN open \subseteq {OrigArea, op.dest}
       ELSE \E x : open \subseteq {x}
    /\ pc \in Places /\ op.todo \subseteq Mail /\ op.oidx \in 0..Total
    /\ pc = "scan" /\ op.caller = "list" => op.currno \in 1..Total /\ op.stecho \in Areas

TypeInv == IInv /\ Filed /\ Shown

LEMMA Sizes == Total \in Nat /\ 1 \in 1..Total /\ 0 \notin Areas /\ MaxMail \in Nat
  <1>1. IsFiniteSet(Areas) /\ Areas # {} /\ Areas \subseteq Nat \ {0} /\ MaxMail \in Nat
    BY AreaAssumption DEF AreaAssumption
  <1>2. Total \in Nat /\ Total # 0
    BY <1>1, FS_CardinalityType, FS_EmptySet DEF Total
  <1> QED BY <1>1, <1>2

\* Every area has its place in an order of all.
LEMMA OrderPlaces ==
    ASSUME NEW s, OrderOf(s, Areas)
    PROVE  /\ Len(s) = Total /\ DOMAIN s = 1..Total /\ \A i \in 1..Total : s[i] \in Areas
           /\ \A a \in Areas : AreaIdToNo(s, a) \in 1..Total /\ s[AreaIdToNo(s, a)] = a
  <1>1. Len(s) = Total /\ DOMAIN s = 1..Total /\ s \in [1..Total -> Areas]
    BY Sizes DEF OrderOf, Total
  <1>2. ASSUME NEW a \in Areas PROVE AreaIdToNo(s, a) \in 1..Total /\ s[AreaIdToNo(s, a)] = a
    <2>1. \E i \in DOMAIN s : s[i] = a
      BY DEF OrderOf, Range
    <2>2. AreaIdToNo(s, a) = CHOOSE i \in DOMAIN s : s[i] = a
      BY <2>1 DEF AreaIdToNo
    <2> QED BY <1>1, <2>1, <2>2
  <1> QED BY <1>1, <1>2

LEMMA ScanOrderIs == OrderOf(ScanOrder, Areas)
  BY OrderAssumption DEF OrderAssumption, OrderOf

LEMMA MailFinite ==
    ASSUME Filed
    PROVE  Mail \subseteq 1..MaxMail /\ IsFiniteSet(Mail) /\ Cardinality(Mail) \in Nat
  <1>1. Mail \subseteq 1..MaxMail
    BY DEF Filed, Mail
  <1>2. IsFiniteSet(1..MaxMail)
    BY Sizes, FS_Interval
  <1>3. IsFiniteSet(Mail)
    BY <1>1, <1>2, FS_Subset
  <1> QED BY <1>1, <1>3, FS_CardinalityType

LEMMA PacketFinite == ASSUME Filed PROVE IsFiniteSet(packet) /\ Cardinality(packet) \in Nat
  <1>1. IsFiniteSet(packet)
    BY AreaAssumption, FS_Subset DEF AreaAssumption, Filed
  <1> QED BY <1>1, FS_CardinalityType

-----------------------------------------------------------------------------
LEMMA TypeInit == Init => TypeInv
  <1> SUFFICES ASSUME Init PROVE TypeInv
    OBVIOUS
  <1>1. mail = [a \in Areas |-> {}] /\ packet = {} /\ Mail = {}
    BY DEF Init, Mail
  <1>2. Cardinality(Mail) + Cardinality(packet) <= MaxMail
    <2>1. Cardinality(Mail) = 0 /\ Cardinality(packet) = 0
      BY <1>1, FS_EmptySet
    <2> QED BY <2>1, Sizes
  <1>3. Filed
    BY <1>1, <1>2, Sizes DEF Init, Filed
  <1>4. idx = InOrder(Areas) /\ OrderOf(idx, Areas)
    BY InOrderIs DEF Init
  <1>5. Shown
    BY <1>4, Sizes DEF Init, Shown, Places, NoOp
  <1> QED BY <1>3, <1>5, InvInit DEF TypeInv

\* What leaves the mail and the packet as they are.
LEMMA FiledSame ==
    ASSUME Filed, UNCHANGED <<mail, packet>>,
           sems' \subseteq Kinds, again' \in BOOLEAN, list' \subseteq Areas,
           read' \in [Areas -> SUBSET (1..MaxMail)],
           \A a \in Areas : counted'[a] \subseteq counted[a] \/ counted'[a] \subseteq mail[a]
    PROVE  Filed'
  BY DEF Filed, Mail

\* An area is opened, and what was known of the one before has been read.
LEMMA FiledOutside ==
    ASSUME TypeInv, UNCHANGED outside,
           read' = read \/ (ReadUpTo /\ AA \in Areas),
           counted' = counted \/ \E x : counted' = [counted EXCEPT ![x] = mail[x]]
    PROVE  Filed'
  <1>1. UNCHANGED <<mail, packet, sems, again, list>> /\ Filed
    BY DEF outside, TypeInv
  <1>2. read' \in [Areas -> SUBSET (1..MaxMail)]
    <2>1. CASE read' = read
      BY <2>1 DEF TypeInv, Filed
    <2>2. CASE ReadUpTo /\ AA \in Areas
      <3>1. counted[AA] \in SUBSET (1..MaxMail)
        BY <2>2 DEF TypeInv, Filed
      <3> QED BY <2>2, <3>1 DEF ReadUpTo, TypeInv, Filed
    <2> QED BY <2>1, <2>2
  <1>3. \A a \in Areas : counted'[a] \subseteq counted[a] \/ counted'[a] \subseteq mail[a]
    BY DEF TypeInv, IInv, Typed
  <1> QED BY <1>1, <1>2, <1>3, FiledSame DEF Filed

\* A scan begins.
LEMMA BeginsTyped ==
    ASSUME TypeInv, [Next]_vars, NEW caller, NEW mode, NEW k, BeginScan(caller, mode, k),
           UNCHANGED current, UNCHANGED index, pc \notin {"move", "delete"}
    PROVE  Shown'
  <1>1. /\ idx' = ScanOrder /\ pc' = "scan" /\ op'.todo = op.todo /\ op'.oidx = op.oidx
        /\ op'.caller = caller
        /\ caller = "list" => op'.currno = index /\ op'.stecho = idx[index]
    BY DEF BeginScan, TypeInv, IInv, Typed, Fields
  <1>2. idx[index] \in Areas
    BY OrderPlaces DEF TypeInv, Shown
  <1>3. Mail \subseteq Mail'
    BY MailStays DEF TypeInv
  <1> QED BY <1>1, <1>2, <1>3, ScanOrderIs DEF TypeInv, Shown, current, Places

LEMMA StartTyped == ASSUME TypeInv, [Next]_vars, Startup \/ Tick PROVE TypeInv'
  <1>1. UNCHANGED <<outside, read, counted, current, index>> /\ pc \in {"start", "list"}
    BY DEF Startup, Tick
  <1>2. Filed'
    BY <1>1, FiledOutside
  <1>3. Mail \subseteq Mail'
    BY MailStays DEF TypeInv
  <1>4. Shown'
    <2>1. CASE BeginScan("startup", "startup", 1)
      BY <1>1, <2>1, BeginsTyped
    <2>2. CASE idx' = Sorted(counted, read) /\ op' = [NoOp EXCEPT !.caller = "startup"] /\ pc' = "check"
      <3>1. OrderOf(idx', Areas)
        BY <2>2, SortedIs
      <3>2. op'.todo = {} /\ op'.oidx = 0
        BY <2>2 DEF NoOp
      <3> QED BY <1>1, <2>2, <3>1, <3>2, Sizes DEF TypeInv, Shown, Places, current
    <2>3. CASE Tick
      <3>1. pc' = "check" /\ op'.todo = op.todo /\ op'.oidx = op.oidx /\ idx' = idx
        BY <2>3 DEF Tick, TypeInv, IInv, Typed, Fields
      <3> QED BY <1>1, <1>3, <3>1 DEF TypeInv, Shown, Places, current
    <2> QED BY <2>1, <2>2, <2>3 DEF Startup
  <1>5. IInv'
    BY InvNext, OrderAssumption DEF TypeInv
  <1> QED BY <1>2, <1>4, <1>5 DEF TypeInv

\* A message arrives, or a semaphore is touched.
LEMMA OtherTyped ==
    ASSUME TypeInv, [Next]_vars, (\E a \in Areas : Toss(a)) \/ (\E s \in Kinds : Touch(s))
    PROVE  TypeInv'
  <1>1. UNCHANGED <<read, counted, idx, current, pc, op, index>>
    BY DEF Toss, Touch
  <1>2. Mail \subseteq Mail'
    BY MailStays DEF TypeInv
  <1>3. Shown'
    BY <1>1, <1>2 DEF TypeInv, Shown, current
  <1>4. Filed'
    <2>1. ASSUME NEW a \in Areas, Toss(a) PROVE Filed'
      <3>1. PICK n \in Nat : n = Cardinality(Mail)
        BY MailFinite DEF TypeInv
      <3>2. PICK k \in Nat : k = Cardinality(packet)
        BY PacketFinite DEF TypeInv
      <3>3. n + k < MaxMail /\ mail' = [mail EXCEPT ![a] = @ \cup {n + 1}]
            /\ UNCHANGED <<sems, list, packet, again>>
        BY <2>1, <3>1, <3>2 DEF Toss
      <3>4. n + 1 \in 1..MaxMail
        BY <3>3, Sizes
      <3>5. /\ mail' \in [Areas -> SUBSET (1..MaxMail)]
            /\ \A b \in Areas : mail[b] \subseteq mail'[b] /\ mail'[b] \subseteq mail[b] \cup {n + 1}
        BY <3>3, <3>4 DEF TypeInv, Filed
      <3>6. Mail' = Mail \cup {n + 1}
        <4>1. Mail' \subseteq Mail \cup {n + 1}
          BY <3>5 DEF Mail
        <4>2. n + 1 \in mail'[a]
          BY <3>3 DEF TypeInv, Filed
        <4>3. n + 1 \in Mail'
          BY <4>2 DEF Mail
        <4> QED BY <1>2, <4>1, <4>3
      <3>7. Cardinality(Mail') <= n + 1
        <4>1. Cardinality(Mail') = IF n + 1 \in Mail THEN n ELSE n + 1
          BY <3>1, <3>6, MailFinite, FS_AddElement DEF TypeInv
        <4> QED BY <4>1
      <3>8. Cardinality(Mail') \in Nat
        <4>1. IsFiniteSet(Mail')
          BY <3>6, MailFinite, FS_AddElement DEF TypeInv
        <4> QED BY <4>1, FS_CardinalityType
      <3>9. Cardinality(Mail') + k <= MaxMail
        BY <3>3, <3>7, <3>8, Sizes
      <3>10. packet' = packet /\ Cardinality(packet') = k
        BY <3>2, <3>3
      <3> QED BY <1>1, <3>3, <3>5, <3>9, <3>10 DEF TypeInv, Filed
    <2>2. ASSUME NEW s \in Kinds, Touch(s) PROVE Filed'
      <3>1. /\ sems' = sems \cup {s} /\ again' = (again \/ Scanning(s))
            /\ list' = list \/ \E a \in Areas : list' = list \cup {a}
            /\ packet' = packet \/ packet' \in SUBSET Areas
            /\ Cardinality(Mail) + Cardinality(packet') <= MaxMail /\ mail' = mail
        BY <2>2 DEF Touch
      <3>2. Mail' = Mail
        BY <3>1 DEF Mail
      <3>3. sems' \subseteq Kinds /\ again' \in BOOLEAN /\ list' \subseteq Areas /\ packet' \subseteq Areas
        BY <3>1 DEF TypeInv, Filed
      <3> QED BY <1>1, <3>1, <3>2, <3>3 DEF TypeInv, Filed
    <2> QED BY <2>1, <2>2
  <1>5. IInv'
    BY InvNext, OrderAssumption DEF TypeInv
  <1> QED BY <1>3, <1>4, <1>5 DEF TypeInv

\* The scan.
LEMMA ScanTyped == ASSUME TypeInv, [Next]_vars, Scan PROVE TypeInv'
  <1>1. pc = "scan" /\ IInv' /\ Mail \subseteq Mail'
    BY InvNext, OrderAssumption, MailStays
       DEF TypeInv, Scan, ScanArea, ScanEscape, StartupScanned, CheckScanned, ListScanned
  <1>2. CASE ScanArea
    <2>1. /\ UNCHANGED <<outside, read, idx, OrigArea, open, pc, index>> /\ op' = [op EXCEPT !.n = @ + 1]
          /\ SetActive(idx[op.n]) /\ op.n <= Len(idx)
          /\ counted' = counted \/ counted' = [counted EXCEPT ![idx[op.n]] = mail[idx[op.n]]]
      BY <1>2 DEF ScanArea
    <2>2. op'.todo = op.todo /\ op'.oidx = op.oidx /\ op'.caller = op.caller
          /\ op'.currno = op.currno /\ op'.stecho = op.stecho
      BY <2>1 DEF TypeInv, IInv, Typed, Fields
    <2>3. idx[op.n] \in Areas
      <3>1. op.n \in 1..Total
        BY <1>1, <2>1, OrderPlaces, Sizes DEF TypeInv, IInv, ScanPlace, Shown
      <3> QED BY <3>1, OrderPlaces DEF TypeInv, Shown
    <2>4. Shown'
      BY <1>1, <2>1, <2>2, <2>3 DEF TypeInv, Shown, SetActive
    <2>5. Filed'
      BY <2>1, FiledOutside
    <2> QED BY <1>1, <2>4, <2>5 DEF TypeInv
  <1>3. CASE ScanEscape
    <2>1. UNCHANGED <<outside, read, counted, idx, current, pc, index>>
          /\ op' = [op EXCEPT !.n = Len(idx) + 1, !.broken = TRUE]
      BY <1>3 DEF ScanEscape
    <2>2. op'.todo = op.todo /\ op'.oidx = op.oidx /\ op'.caller = op.caller
          /\ op'.currno = op.currno /\ op'.stecho = op.stecho
      BY <2>1 DEF TypeInv, IInv, Typed, Fields
    <2>3. Shown'
      BY <1>1, <2>1, <2>2 DEF TypeInv, Shown, current
    <2>4. Filed'
      BY <2>1, FiledOutside
    <2> QED BY <1>1, <2>3, <2>4 DEF TypeInv
  <1>4. CASE StartupScanned
    <2>1. UNCHANGED <<outside, read, counted, idx, current, index>> /\ op'.todo = {} /\ op'.oidx = 0
          /\ pc' = "check"
      BY <1>4 DEF StartupScanned, NoOp
    <2>2. Shown'
      BY <1>1, <2>1, Sizes DEF TypeInv, Shown, current, Places
    <2>3. Filed'
      BY <2>1, FiledOutside
    <2> QED BY <1>1, <2>2, <2>3 DEF TypeInv
  <1>5. CASE CheckScanned
    <2>1. /\ UNCHANGED <<mail, list, packet, read, counted, idx, current, index>>
          /\ op' = [op EXCEPT !.k = @ + 1, !.scanned = TRUE, !.mode = "none", !.n = 1,
                              !.bag = {}, !.broken = FALSE]
          /\ pc' = "check" /\ again' = FALSE /\ sems' \subseteq sems
      BY <1>5 DEF CheckScanned, Done
    <2>2. op'.todo = op.todo /\ op'.oidx = op.oidx
      BY <2>1 DEF TypeInv, IInv, Typed, Fields
    <2>3. Shown'
      BY <1>1, <2>1, <2>2 DEF TypeInv, Shown, current, Places
    <2>4. Filed'
      BY <2>1, FiledSame DEF TypeInv, Filed
    <2> QED BY <1>1, <2>3, <2>4 DEF TypeInv
  <1>6. CASE ListScanned
    <2>1. /\ UNCHANGED <<outside, read, counted, OrigArea, open>> /\ SetActive(idx[op.currno])
          /\ idx' = Sorted(counted, read) /\ index' = AreaIdToNo(idx', op.stecho)
          /\ pc' = "list" /\ op' = Picking /\ op.caller = "list"
      BY <1>6 DEF ListScanned, Under
    <2>2. op'.todo = op.todo /\ op'.oidx = op.oidx
      BY <2>1 DEF Picking, NoOp
    <2>3. op.currno \in 1..Total /\ op.stecho \in Areas
      BY <1>1, <2>1 DEF TypeInv, Shown
    <2>4. idx[op.currno] \in Areas
      BY <2>3, OrderPlaces DEF TypeInv, Shown
    <2>5. OrderOf(idx', Areas)
      BY <2>1, SortedIs
    <2>6. index' \in 1..Total
      BY <2>1, <2>3, <2>5, OrderPlaces
    <2>7. Shown'
      BY <1>1, <2>1, <2>2, <2>4, <2>5, <2>6 DEF TypeInv, Shown, SetActive, Places
    <2>8. Filed'
      BY <2>1, FiledOutside
    <2> QED BY <1>1, <2>7, <2>8 DEF TypeInv
  <1> QED BY <1>2, <1>3, <1>4, <1>5, <1>6 DEF Scan

\* The messages of a packet get the numbers that come next.
LEMMA ImportFiled ==
    ASSUME TypeInv, CheckImport, packet # {}
    PROVE  /\ Filed' /\ SetActive(Last(InOrder(packet))) /\ OrigArea' = Last(InOrder(packet))
           /\ Last(InOrder(packet)) \in Areas /\ open' = open \ {AA}
  <1> DEFINE new == InOrder(packet)
             id(a) == Cardinality(Mail) + AreaIdToNo(new, a)
  <1>1. /\ mail' = [a \in Areas |-> IF a \in packet THEN mail[a] \cup {id(a)} ELSE mail[a]]
        /\ counted' = [a \in Areas |-> IF a \in packet THEN mail'[a] ELSE counted[a]]
        /\ AA' = Last(new) /\ CurrArea' = Last(new) /\ OrigArea' = Last(new) /\ open' = open \ {AA}
        /\ packet' = {} /\ sems' = sems \ {"qwkimport"} /\ UNCHANGED <<list, again, read>>
    BY DEF CheckImport, ImportPacket
  <1>2. packet \subseteq Areas /\ Filed
    BY DEF TypeInv, Filed
  <1>3. PICK n \in Nat : n = Cardinality(Mail)
    BY <1>2, MailFinite
  <1>4. PICK k \in Nat : k = Cardinality(packet)
    BY <1>2, PacketFinite
  <1>5. n + k <= MaxMail
    BY <1>2, <1>3, <1>4 DEF Filed
  <1>6. OrderOf(new, packet)
    BY <1>2, InOrderIs
  <1>7. Len(new) = k /\ DOMAIN new = 1..k /\ \A i \in 1..k : new[i] \in packet
    <2>1. new \in Seq(packet) /\ Len(new) = k
      BY <1>4, <1>6 DEF OrderOf
    <2> HIDE DEF new
    <2> QED BY <2>1
  <1>8. ASSUME NEW a \in packet PROVE AreaIdToNo(new, a) \in 1..k
    <2>1. \E i \in DOMAIN new : new[i] = a
      BY <1>6 DEF OrderOf, Range
    <2>2. AreaIdToNo(new, a) = CHOOSE i \in DOMAIN new : new[i] = a
      BY <2>1 DEF AreaIdToNo
    <2> QED BY <1>7, <2>1, <2>2
  <1>9. ASSUME NEW a \in packet PROVE id(a) \in (n + 1)..(n + k) /\ id(a) \in 1..MaxMail
    <2>1. PICK i \in 1..k : i = AreaIdToNo(new, a)
      BY <1>8
    <2>2. id(a) = n + i
      BY <1>3, <2>1
    <2>3. n + i \in (n + 1)..(n + k) /\ n + i \in 1..MaxMail
      BY <1>5, Sizes
    <2> QED BY <2>2, <2>3
  <1> HIDE DEF id
  <1>10. mail' \in [Areas -> SUBSET (1..MaxMail)]
    BY <1>1, <1>2, <1>9 DEF Filed
  <1>11. \A a \in Areas : counted'[a] \subseteq mail'[a]
    BY <1>1, <1>2 DEF Filed
  <1>12. Mail' \subseteq Mail \cup (n + 1)..(n + k)
    BY <1>1, <1>9 DEF Mail
  <1>13. Cardinality(Mail') + Cardinality(packet') <= MaxMail
    <2> DEFINE I == (n + 1)..(n + k)
    <2>1. IsFiniteSet(I) /\ Cardinality(I) = k
      BY FS_Interval
    <2>2. IsFiniteSet(Mail) /\ Cardinality(Mail) = n
      BY <1>2, <1>3, MailFinite
    <2> HIDE DEF I
    <2>3. IsFiniteSet(Mail \cup I) /\ Cardinality(Mail \cap I) \in Nat
          /\ Cardinality(Mail \cup I) = n + k - Cardinality(Mail \cap I)
      <3>1. IsFiniteSet(Mail \cap I)
        BY <2>2, FS_Subset
      <3> QED BY <2>1, <2>2, <3>1, FS_Union, FS_CardinalityType
    <2>4. Cardinality(Mail \cup I) <= n + k
      BY <2>3
    <2>5. Cardinality(Mail') <= Cardinality(Mail \cup I) /\ IsFiniteSet(Mail')
      BY <1>12, <2>3, FS_Subset DEF I
    <2>6. Cardinality(Mail') \in Nat /\ Cardinality(Mail \cup I) \in Nat
      BY <2>3, <2>5, FS_CardinalityType
    <2>7. Cardinality(packet') = 0
      BY <1>1, FS_EmptySet
    <2> QED BY <1>5, <2>4, <2>5, <2>6, <2>7, Sizes
  <1>14. Filed'
    BY <1>1, <1>2, <1>10, <1>11, <1>13 DEF Filed
  <1>15. Last(new) \in Areas
    <2>1. k # 0
      BY <1>4, PacketFinite, FS_EmptySet, <1>2
    <2>2. k \in 1..k
      BY <2>1
    <2> HIDE DEF new
    <2> QED BY <1>2, <1>7, <2>2 DEF Last
  <1> QED BY <1>1, <1>14, <1>15 DEF SetActive

LEMMA ImportTyped == ASSUME TypeInv, [Next]_vars, CheckImport PROVE TypeInv'
  <1>1. IInv' /\ Mail \subseteq Mail'
    BY InvNext, OrderAssumption, MailStays DEF TypeInv
  <1>2. /\ pc = "check" /\ op' = [op EXCEPT !.k = At + 1, !.scanned = TRUE]
        /\ UNCHANGED <<list, again, read, idx, pc, index>>
        /\ packet' = {} /\ sems' = sems \ {"qwkimport"}
    BY DEF CheckImport, Checking
  <1>3. op'.todo = op.todo /\ op'.oidx = op.oidx
    BY <1>2 DEF TypeInv, IInv, Typed, Fields
  <1>4. Filed' /\ {AA', CurrArea', OrigArea'} \subseteq Areas \cup {0} /\ open' \subseteq open
    <2>1. CASE packet = {}
      <3>1. /\ UNCHANGED <<mail, packet, counted, AA>> /\ open' \subseteq open
            /\ CurrArea' \in {CurrArea, 0} /\ OrigArea' \in {OrigArea, 0}
        BY <1>2, <2>1 DEF CheckImport, ImportNothing
      <3>2. Filed'
        BY <1>2, <3>1, FiledSame DEF TypeInv, Filed
      <3> QED BY <3>1, <3>2 DEF TypeInv, Shown
    <2>2. CASE packet # {}
      BY <2>2, ImportFiled DEF SetActive
    <2> QED BY <2>1, <2>2
  <1>5. Shown'
    BY <1>1, <1>2, <1>3, <1>4 DEF TypeInv, Shown
  <1> QED BY <1>1, <1>4, <1>5 DEF TypeInv

\* The semaphores are looked for.
LEMMA CheckTyped == ASSUME TypeInv, [Next]_vars, Check PROVE TypeInv'
  <1>1. IInv' /\ Mail \subseteq Mail' /\ pc \in {"check", "remove"}
    BY InvNext, OrderAssumption, MailStays
       DEF TypeInv, Check, CheckImport, ImportCrash, CheckExit, CheckScan, CheckDone, RemoveList, Checking
  <1>2. CASE CheckImport
    BY <1>2, ImportTyped
  <1>7. CASE ImportCrash
    <2>1. /\ pc' = "crashed" /\ packet' = {}
          /\ UNCHANGED <<mail, sems, list, again, read, counted, idx, current, op, index>>
      BY <1>7 DEF ImportCrash
    <2>2. Filed'
      <3>1. IsFiniteSet(packet) /\ Cardinality(packet) \in Nat /\ Cardinality(packet') = 0
        BY <2>1, PacketFinite, FS_EmptySet DEF TypeInv, Filed
      <3>2. Cardinality(Mail) \in Nat /\ Mail' = Mail
        BY <2>1, MailFinite DEF TypeInv, Filed, Mail
      <3> QED BY <2>1, <3>1, <3>2, Sizes DEF TypeInv, Filed
    <2>3. Shown'
      BY <1>1, <2>1 DEF TypeInv, Shown, current, Places
    <2> QED BY <1>1, <2>2, <2>3 DEF TypeInv
  <1>3. CASE CheckExit
    <2>1. /\ UNCHANGED <<mail, packet, again, list, read, counted, idx, current, pc, index>>
          /\ sems' \subseteq sems
      BY <1>3 DEF CheckExit
    <2>2. op'.todo = op.todo /\ op'.oidx = op.oidx
      BY <1>3 DEF CheckExit, TypeInv, IInv, Typed, Fields
    <2>3. Filed'
      BY <2>1, FiledSame DEF TypeInv, Filed
    <2>4. Shown'
      BY <1>1, <2>1, <2>2 DEF TypeInv, Shown, current
    <2> QED BY <1>1, <2>3, <2>4 DEF TypeInv
  <1>4. CASE RemoveList
    <2>1. /\ UNCHANGED <<mail, packet, read, counted, current, index>> /\ BeginScan(op.caller, "list", op.k)
          /\ sems' \subseteq sems /\ list' = {} /\ again' = FALSE
      BY <1>4 DEF RemoveList
    <2>2. Filed'
      BY <2>1, FiledSame DEF TypeInv, Filed
    <2>3. Shown'
      BY <1>1, <2>1, BeginsTyped
    <2> QED BY <1>1, <2>2, <2>3 DEF TypeInv
  <1>5. CASE CheckDone
    <2>1. /\ UNCHANGED <<outside, read, counted, OrigArea, open>> /\ pc' \in {"list", "quit"}
          /\ idx' = Sorted(counted, read) \/ idx' = idx
          /\ op' = NoOp \/ op' = Picking
          /\ \/ SetActive(idx'[1]) /\ index' = 1
             \/ UNCHANGED <<AA, CurrArea, index>>
      BY <1>5 DEF CheckDone
    <2>2. OrderOf(idx', Areas)
      BY <2>1, SortedIs DEF TypeInv, Shown
    <2>3. idx'[1] \in Areas
      BY <2>2, OrderPlaces, Sizes
    <2>4. op'.todo \subseteq op.todo /\ op'.oidx \in {0, op.oidx}
      <3>1. NoOp.todo = {} /\ NoOp.oidx = 0
        BY DEF NoOp
      <3>2. Picking.todo = op.todo /\ Picking.oidx = op.oidx
        BY DEF Picking, NoOp
      <3>3. CASE op' = NoOp
        BY <3>1, <3>3
      <3>4. CASE op' = Picking
        BY <3>2, <3>4
      <3> QED BY <2>1, <3>3, <3>4
    <2>5. Filed'
      BY <2>1, FiledOutside
    <2>6. Shown'
      BY <1>1, <2>1, <2>2, <2>3, <2>4, Sizes DEF TypeInv, Shown, SetActive, Places
    <2> QED BY <1>1, <2>5, <2>6 DEF TypeInv
  <1>6. ASSUME NEW s \in {"scanall", "scanthis", "scannetmail"}, CheckScan(s) PROVE TypeInv'
    <2>1. /\ UNCHANGED <<mail, list, packet, again, read, counted, current, index>> /\ sems' \subseteq sems
      BY <1>6 DEF CheckScan, Refuse
    <2>2. Filed'
      BY <2>1, FiledSame DEF TypeInv, Filed
    <2>3. Shown'
      <3>1. CASE UNCHANGED <<idx, pc>> /\ op' = [op EXCEPT !.k = At + 1]
        <4>1. op'.todo = op.todo /\ op'.oidx = op.oidx
          BY <3>1 DEF TypeInv, IInv, Typed, Fields
        <4> QED BY <1>1, <2>1, <3>1, <4>1 DEF TypeInv, Shown, current
      <3>2. CASE op' = [op EXCEPT !.k = At, !.bag = list] /\ pc' = "remove" /\ UNCHANGED idx
        <4>1. op'.todo = op.todo /\ op'.oidx = op.oidx
          BY <3>2 DEF TypeInv, IInv, Typed, Fields
        <4> QED BY <1>1, <2>1, <3>2, <4>1 DEF TypeInv, Shown, current, Places
      <3>3. CASE BeginScan(op.caller, IF s = "scanall" THEN "all" ELSE "netmail", At)
        BY <1>1, <2>1, <3>3, BeginsTyped
      <3> QED BY <1>6, <3>1, <3>2, <3>3 DEF CheckScan
    <2> QED BY <1>1, <2>2, <2>3 DEF TypeInv
  <1> QED BY <1>2, <1>3, <1>4, <1>5, <1>6, <1>7 DEF Check

-----------------------------------------------------------------------------
\* An area is opened to read.
LEMMA ReadAreaTyped ==
    ASSUME TypeInv, [Next]_vars, NEW a \in Areas, ReadArea(a), UNCHANGED <<outside, read>>
    PROVE  Filed' /\ Shown'
  <1>1. /\ AA' = a /\ CurrArea' = a /\ OrigArea' = a /\ open' = {a} /\ pc' = "reader" /\ op' = NoOp
        /\ index' = 1 /\ idx' = Sorted(counted, read) /\ counted' = [counted EXCEPT ![a] = mail[a]]
    BY DEF ReadArea, SetActive
  <1>2. OrderOf(idx', Areas)
    BY <1>1, SortedIs
  <1>3. op'.todo = {} /\ op'.oidx = 0
    BY <1>1 DEF NoOp
  <1>4. Filed'
    BY <1>1, FiledOutside
  <1>5. Shown'
    BY <1>1, <1>2, <1>3, Sizes DEF Shown, Places
  <1> QED BY <1>4, <1>5

\* The list as the user works with it.
LEMMA ListTyped ==
    ASSUME TypeInv, [Next]_vars, MoveBar \/ SelectArea \/ Abort \/ AbortDest \/ ScanKey("current")
    PROVE  TypeInv'
  <1>1. IInv' /\ Mail \subseteq Mail' /\ pc = "list" /\ UNCHANGED <<outside, read>>
    BY InvNext, OrderAssumption, MailStays
       DEF TypeInv, MoveBar, SelectArea, Abort, AbortDest, ScanKey
  <1>2. CASE MoveBar
    <2>1. UNCHANGED <<counted, idx, current, pc, op>> /\ index' \in DOMAIN idx
      BY <1>2 DEF MoveBar
    <2>2. index' \in 1..Total
      BY <2>1, OrderPlaces DEF TypeInv, Shown
    <2>3. Shown'
      BY <1>1, <2>1, <2>2 DEF TypeInv, Shown, current
    <2> QED BY <1>1, <2>1, <2>3, FiledOutside DEF TypeInv
  <1>3. CASE SelectArea
    <2>1. idx[index] \in Areas
      BY OrderPlaces DEF TypeInv, Shown
    <2> QED BY <1>1, <1>3, <2>1, ReadAreaTyped DEF TypeInv, SelectArea
  <1>4. CASE Abort
    <2>1. PICK a : /\ a = IF op.oidx # 0 THEN idx[op.oidx] ELSE CurrArea
                   /\ IF a # 0 THEN ReadArea(a)
                      ELSE pc' = "crashed" /\ UNCHANGED <<counted, idx, current, op, index>>
      BY <1>4 DEF Abort
    <2>2. a \in Areas \cup {0}
      <3>1. op.oidx # 0 => op.oidx \in 1..Total
        BY Sizes DEF TypeInv, Shown
      <3> QED BY <2>1, <3>1, OrderPlaces DEF TypeInv, Shown
    <2>3. CASE a # 0
      BY <1>1, <2>1, <2>2, <2>3, ReadAreaTyped DEF TypeInv
    <2>4. CASE a = 0
      <3>1. pc' = "crashed" /\ UNCHANGED <<counted, idx, current, op, index>>
        BY <2>1, <2>4
      <3>2. Shown'
        BY <1>1, <3>1 DEF TypeInv, Shown, current, Places
      <3> QED BY <1>1, <3>1, <3>2, FiledOutside DEF TypeInv
    <2> QED BY <2>3, <2>4
  <1>5. CASE AbortDest
    <2>1. pc' = "reader" /\ op'.todo = {} /\ op'.oidx = 0 /\ index' = 1 /\ UNCHANGED <<counted, idx, current>>
      BY <1>5 DEF AbortDest, NoOp
    <2>2. Shown'
      BY <1>1, <2>1, Sizes DEF TypeInv, Shown, current, Places
    <2> QED BY <1>1, <2>1, <2>2, FiledOutside DEF TypeInv
  <1>6. CASE ScanKey("current")
    <2>1. UNCHANGED <<counted, OrigArea, open, index>>
      BY <1>6 DEF ScanKey
    <2>2. CASE AA \in open
      <3>1. SetActive(idx[index]) /\ UNCHANGED <<idx, op, pc>>
        BY <1>6, <2>2 DEF ScanKey
      <3>2. idx[index] \in Areas
        BY OrderPlaces DEF TypeInv, Shown
      <3>3. Shown'
        BY <1>1, <2>1, <3>1, <3>2 DEF TypeInv, Shown, SetActive
      <3> QED BY <1>1, <2>1, <3>3, FiledOutside DEF TypeInv
    <2>3. CASE AA \notin open
      <3>1. BeginScan("list", "current", 1) /\ UNCHANGED current
        BY <1>6, <2>3 DEF ScanKey, current
      <3>2. Shown'
        BY <1>1, <2>1, <3>1, BeginsTyped
      <3> QED BY <1>1, <2>1, <3>2, FiledOutside DEF TypeInv
    <2> QED BY <2>2, <2>3
  <1> QED BY <1>2, <1>3, <1>4, <1>5, <1>6

\* The next area with new mail, round the list, is one.
LEMMA LaterIn ==
    ASSUME TypeInv, NEW n \in 1..Total, NEW k \in Int PROVE Later(n, k) \in Areas
  <1>1. PICK c \in Nat : c = Total /\ c > 0
    BY Sizes
  <1>2. Len(idx) = c /\ \A i \in 1..c : idx[i] \in Areas
    BY <1>1, OrderPlaces DEF TypeInv, Shown
  <1>3. ((n + k - 1) % c) + 1 \in 1..c
    BY <1>1
  <1> QED BY <1>2, <1>3 DEF Later

\* The reader, when it leaves an area.
LEMMA ReaderTyped ==
    ASSUME TypeInv, [Next]_vars, NewArea \/ JumpNext \/ PickDest \/ \E d \in {-1, 1} : StepArea(d)
    PROVE  TypeInv'
  <1>1. /\ IInv' /\ Mail \subseteq Mail' /\ pc = "reader" /\ UNCHANGED outside
        /\ AA \in Areas /\ CurrArea \in Areas
    <2>1. Reading /\ UNCHANGED outside
      BY DEF NewArea, JumpNext, PickDest, StepArea
    <2>2. pc = "reader" /\ AA \in open /\ CurrArea # 0
      BY <2>1 DEF Reading
    <2>3. AA \in Areas /\ CurrArea \in Areas
      BY <2>2 DEF TypeInv, Shown
    <2> QED BY <2>1, <2>2, <2>3, InvNext, OrderAssumption, MailStays DEF TypeInv
  <1>2. PICK n \in 1..Total : n = AreaIdToNo(idx, CurrArea)
    BY <1>1, OrderPlaces DEF TypeInv, Shown
  <1>3. ASSUME NEW pick, NEW oidx \in 0..Total, ShowList(pick, oidx)
        PROVE  pc' = "list" /\ op'.todo = {} /\ op'.oidx = oidx /\ index' = n
    BY <1>2, <1>3 DEF ShowList, NoOp
  <1>4. CASE NewArea
    <2>1. ReadUpTo /\ open' = {} /\ ShowList("new", 0) /\ UNCHANGED <<counted, idx, AA, CurrArea, OrigArea>>
      BY <1>4 DEF NewArea
    <2>2. Shown'
      BY <1>1, <1>3, <2>1, Sizes DEF TypeInv, Shown, Places
    <2> QED BY <1>1, <2>1, <2>2, FiledOutside DEF TypeInv
  <1>5. CASE JumpNext
    <2>1. PICK a \in Areas :
             /\ ReadUpTo
             /\ \/ /\ open' = {} /\ ShowList("new", n)
                   /\ UNCHANGED <<counted, idx, AA, CurrArea, OrigArea>>
                \/ /\ SetActive(a) /\ OrigArea' = a /\ idx' = Sorted(counted, read')
                   /\ open' = {a} /\ counted' = [counted EXCEPT ![a] = mail[a]]
                   /\ UNCHANGED <<pc, op, index>>
      <3> DEFINE new == {k \in 1..(Len(idx) - 1) : Unread(Later(n, k), counted, read')}
                 a == Later(n, Min(new))
      <3>0. ReadUpTo
        BY <1>5 DEF JumpNext
      <3>1. CASE new = {}
        BY <1>2, <1>5, <3>0, <3>1, <1>1 DEF JumpNext
      <3>2. CASE new # {}
        <4>1. PICK c \in Nat : c = Len(idx)
          BY OrderPlaces, Sizes DEF TypeInv, Shown
        <4>2. new \subseteq Nat
          BY <4>1
        <4>3. PICK k \in new : \A j \in new : k <= j
          <5> HIDE DEF new
          <5> QED BY <3>2, <4>2, LeastNumber
        <4>4. Min(new) \in new
          BY <4>3 DEF Min
        <4>5. a \in Areas
          BY <4>2, <4>4, LaterIn
        <4>6. /\ SetActive(a) /\ OrigArea' = a /\ idx' = Sorted(counted, read')
              /\ open' = {a} /\ counted' = [counted EXCEPT ![a] = mail[a]]
              /\ UNCHANGED <<pc, op, index>>
          BY <1>2, <1>5, <3>2 DEF JumpNext
        <4> QED BY <3>0, <4>5, <4>6
      <3> QED BY <3>1, <3>2
    <2>2. Filed'
      BY <1>1, <2>1, FiledOutside
    <2>3. Shown'
      <3>1. CASE open' = {} /\ ShowList("new", n) /\ UNCHANGED <<counted, idx, AA, CurrArea, OrigArea>>
        <4>1. n \in 0..Total
          BY Sizes
        <4> QED BY <1>1, <1>3, <3>1, <4>1 DEF TypeInv, Shown, Places
      <3>2. CASE /\ SetActive(a) /\ OrigArea' = a /\ idx' = Sorted(counted, read')
                 /\ open' = {a} /\ UNCHANGED <<pc, op, index>>
        <4>1. OrderOf(idx', Areas)
          BY <3>2, SortedIs
        <4> QED BY <1>1, <3>2, <4>1 DEF TypeInv, Shown, SetActive
      <3> QED BY <2>1, <3>1, <3>2
    <2> QED BY <1>1, <2>2, <2>3 DEF TypeInv
  <1>6. CASE PickDest
    <2>1. PICK todo \in SUBSET counted[AA], move \in BOOLEAN :
              op' = [NoOp EXCEPT !.pick = "dest", !.move = move, !.todo = todo]
      BY <1>6 DEF PickDest
    <2>2. op'.todo = todo /\ op'.oidx = 0
      BY <2>1 DEF NoOp
    <2>3. pc' = "list" /\ index' = n /\ UNCHANGED <<read, counted, idx, current>>
      BY <1>2, <1>6 DEF PickDest
    <2>4. todo \subseteq Mail
      BY <1>1 DEF TypeInv, Filed, Mail
    <2>5. Shown'
      BY <1>1, <2>2, <2>3, <2>4, Sizes DEF TypeInv, Shown, current, Places
    <2> QED BY <1>1, <2>3, <2>5, FiledOutside DEF TypeInv
  <1>7. CASE \E d \in {-1, 1} : StepArea(d)
    <2>1. PICK d \in {-1, 1} : StepArea(d)
      BY <1>7
    <2> DEFINE i == IF n + d \in DOMAIN idx THEN n + d ELSE n
               a == idx[i]
    <2>2. a \in Areas
      <3>1. DOMAIN idx = 1..Total /\ \A j \in 1..Total : idx[j] \in Areas
        BY OrderPlaces DEF TypeInv, Shown
      <3>2. i \in 1..Total
        BY <3>1
      <3> QED BY <3>1, <3>2
    <2>4. /\ SetActive(a) /\ OrigArea' = a /\ open' = {a}
          /\ counted' = [counted EXCEPT ![a] = mail[a]]
          /\ UNCHANGED <<idx, pc, op, index>> /\ ReadUpTo
      BY <1>2, <2>1 DEF StepArea
    <2> HIDE DEF a
    <2>3. Shown'
      BY <1>1, <2>2, <2>4 DEF TypeInv, Shown, SetActive
    <2> QED BY <1>1, <2>3, <2>4, FiledOutside DEF TypeInv
  <1> QED BY <1>4, <1>5, <1>6, <1>7

\* Messages are copied or moved.
LEMMA DestTyped == ASSUME TypeInv, [Next]_vars, SelectDest PROVE TypeInv'
  <1>1. /\ IInv' /\ Mail \subseteq Mail' /\ pc = "list" /\ UNCHANGED <<outside, read, idx, OrigArea>>
        /\ SetActive(OrigArea)
    BY InvNext, OrderAssumption, MailStays DEF TypeInv, SelectDest
  <1>2. PICK a \in Areas :
          IF OrigArea \in open
          THEN /\ open' = open \cup {a} /\ counted' = [counted EXCEPT ![a] = mail[a]]
               /\ op' = [op EXCEPT !.dest = a] /\ pc' = "move" /\ index' = 1
          ELSE pc' = "crashed" /\ UNCHANGED <<open, counted, op, index>>
    BY DEF SelectDest
  <1>3. Filed'
    BY <1>1, <1>2, FiledOutside
  <1>4. CASE OrigArea \in open
    <2>1. op'.dest = a /\ op'.todo = op.todo /\ op'.oidx = op.oidx
      BY <1>2, <1>4 DEF TypeInv, IInv, Typed, Fields
    <2>2. open \subseteq {OrigArea}
      BY <1>1, <1>4 DEF TypeInv, Shown
    <2>3. open' \subseteq {OrigArea', op'.dest}
      BY <1>1, <1>2, <1>4, <2>1, <2>2
    <2>4. Shown'
      BY <1>1, <1>2, <1>4, <2>1, <2>3, Sizes DEF TypeInv, Shown, SetActive, Places
    <2> QED BY <1>1, <1>3, <2>4 DEF TypeInv
  <1>5. CASE OrigArea \notin open
    <2>1. pc' = "crashed" /\ UNCHANGED <<open, counted, op, index>>
      BY <1>2, <1>5
    <2>2. Shown'
      BY <1>1, <2>1 DEF TypeInv, Shown, SetActive, Places
    <2> QED BY <1>1, <1>3, <2>2 DEF TypeInv
  <1> QED BY <1>4, <1>5

\* The message CmfMsgs is at is there.
LEMMA CurrentThere == ASSUME TypeInv, op.todo # {} PROVE Current \in op.todo /\ Current \in Mail
  <1>1. op.todo \subseteq Mail /\ Mail \subseteq 1..MaxMail
    BY MailFinite DEF TypeInv, Shown
  <1>2. op.todo \subseteq Nat
    <2>1. 1..MaxMail \subseteq Nat
      BY Sizes
    <2> QED BY <1>1, <2>1
  <1>3. PICK m \in op.todo : \A x \in op.todo : m <= x
    BY <1>2, LeastNumber
  <1>4. Current \in op.todo
    BY <1>3 DEF Current
  <1> QED BY <1>1, <1>4

\* They are put there, one after another.
LEMMA MoveTyped == ASSUME TypeInv, [Next]_vars, Move PROVE TypeInv'
  <1>1. IInv' /\ Mail \subseteq Mail'
    BY InvNext, OrderAssumption, MailStays DEF TypeInv
  <1>2. CASE CopyMsg
    <2>1. PICK m \in op.todo :
            /\ pc = "move" /\ mail' = Half(1, mail, m) /\ counted' = Half(1, counted, m)
            /\ \/ pc' = "delete" /\ UNCHANGED op
               \/ op' = [op EXCEPT !.todo = @ \ {m}] /\ UNCHANGED pc
            /\ UNCHANGED <<sems, list, packet, owed, again, read, idx, current, index>>
      BY <1>2 DEF CopyMsg
    <2>2. m \in Mail /\ m \in 1..MaxMail
      BY MailFinite DEF TypeInv, Shown
    <2>3. /\ mail' = [mail EXCEPT ![op.dest] = @ \cup {m}]
          /\ counted' = [counted EXCEPT ![op.dest] = @ \cup {m}]
          /\ DOMAIN mail = Areas /\ DOMAIN counted = Areas
      BY <2>1 DEF Half, HalfOf, TypeInv, IInv, Typed
    <2>4. /\ \A a \in Areas : mail'[a] \subseteq mail[a] \cup {m}
          /\ \A a \in Areas : counted'[a] \subseteq mail'[a]
          /\ mail' \in [Areas -> SUBSET (1..MaxMail)]
      <3>1. mail \in [Areas -> SUBSET (1..MaxMail)] /\ \A a \in Areas : counted[a] \subseteq mail[a]
        BY DEF TypeInv, Filed
      <3>2. \A a \in Areas : /\ mail'[a] = IF a = op.dest THEN mail[a] \cup {m} ELSE mail[a]
                             /\ counted'[a] = IF a = op.dest THEN counted[a] \cup {m} ELSE counted[a]
        BY <2>3
      <3>3. mail' = [a \in Areas |-> mail'[a]]
        BY <2>3
      <3>4. \A a \in Areas : mail'[a] \in SUBSET (1..MaxMail)
        <4> TAKE a \in Areas
        <4>1. mail[a] \subseteq 1..MaxMail
          BY <3>1
        <4> QED BY <2>2, <3>2, <4>1
      <3>5. mail' \in [Areas -> SUBSET (1..MaxMail)]
        BY <3>3, <3>4
      <3>6. \A a \in Areas : counted'[a] \subseteq mail'[a] /\ mail'[a] \subseteq mail[a] \cup {m}
        BY <3>1, <3>2
      <3> QED BY <3>5, <3>6
    <2>5. Mail' = Mail
      BY <1>1, <2>2, <2>4 DEF Mail
    <2>6. Filed'
      BY <2>1, <2>4, <2>5 DEF TypeInv, Filed
    <2>7. /\ op'.todo \subseteq op.todo /\ op'.oidx = op.oidx /\ op'.dest = op.dest
          /\ pc' \in {"move", "delete"}
      BY <2>1 DEF TypeInv, IInv, Typed, Fields
    <2>8. Shown'
      BY <1>1, <2>1, <2>7 DEF TypeInv, Shown, current, Places
    <2> QED BY <1>1, <2>6, <2>8 DEF TypeInv
  <1>3. CASE DeleteMsg
    <2>1. /\ pc = "delete" /\ pc' = "move"
          /\ mail' = Half(2, mail, Current) /\ counted' = Half(2, counted, Current)
          /\ read' = [read EXCEPT ![OrigArea] = @ \ {Current}]
          /\ op' = [op EXCEPT !.todo = @ \ {Current}]
          /\ UNCHANGED <<sems, list, packet, again, idx, current, index>>
      BY <1>3 DEF DeleteMsg, Current
    <2>2. /\ mail' = [mail EXCEPT ![OrigArea] = @ \ {Current}]
          /\ counted' = [counted EXCEPT ![OrigArea] = @ \ {Current}]
          /\ DOMAIN mail = Areas /\ DOMAIN counted = Areas
      BY <2>1 DEF Half, HalfOf, TypeInv, IInv, Typed
    <2>3. /\ mail \in [Areas -> SUBSET (1..MaxMail)] /\ read \in [Areas -> SUBSET (1..MaxMail)]
          /\ \A a \in Areas : counted[a] \subseteq mail[a]
      BY DEF TypeInv, Filed
    <2>4. \A a \in Areas : /\ mail'[a] = IF a = OrigArea THEN mail[a] \ {Current} ELSE mail[a]
                           /\ counted'[a] = IF a = OrigArea THEN counted[a] \ {Current} ELSE counted[a]
                           /\ read'[a] = IF a = OrigArea THEN read[a] \ {Current} ELSE read[a]
      BY <2>1, <2>2, <2>3
    <2>5. mail' = [a \in Areas |-> mail'[a]] /\ read' = [a \in Areas |-> read'[a]]
      BY <2>1, <2>2, <2>3
    <2>6. /\ mail' \in [Areas -> SUBSET (1..MaxMail)] /\ read' \in [Areas -> SUBSET (1..MaxMail)]
          /\ \A a \in Areas : counted'[a] \subseteq mail'[a] /\ mail'[a] \subseteq mail[a]
      BY <2>3, <2>4, <2>5
    <2>7. Mail' = Mail
      BY <1>1, <2>6 DEF Mail
    <2>8. Filed'
      BY <2>1, <2>6, <2>7 DEF TypeInv, Filed
    <2>9. op'.todo \subseteq op.todo /\ op'.oidx = op.oidx /\ op'.dest = op.dest
      BY <2>1 DEF TypeInv, IInv, Typed, Fields
    <2>10. Shown'
      BY <1>1, <2>1, <2>9 DEF TypeInv, Shown, current, Places
    <2> QED BY <1>1, <2>8, <2>10 DEF TypeInv
  <1>4. CASE EndMove
    <2>1. /\ pc = "move" /\ SetActive(OrigArea) /\ open' = open \ {op.dest} /\ pc' = "reader"
          /\ op'.todo = {} /\ op'.oidx = 0 /\ UNCHANGED <<outside, read, counted, idx, OrigArea, index>>
      BY <1>4 DEF EndMove, NoOp
    <2>2. Filed'
      BY <2>1, FiledOutside
    <2>3. open' \subseteq {OrigArea} /\ open' \subseteq Areas
      BY <2>1 DEF TypeInv, Shown
    <2>4. Shown'
      BY <2>1, <2>3, Sizes DEF TypeInv, Shown, SetActive, Places
    <2> QED BY <1>1, <2>2, <2>4 DEF TypeInv
  <1> QED BY <1>2, <1>3, <1>4 DEF Move

LEMMA KillTyped == ASSUME TypeInv, [Next]_vars, Kill PROVE TypeInv'
  <1>1. IInv'
    BY InvNext, OrderAssumption DEF TypeInv
  <1>2. /\ counted' = [a \in Areas |-> {}] /\ idx' = InOrder(Areas) /\ AA' = 0 /\ CurrArea' = 0
        /\ OrigArea' = 0 /\ open' = {} /\ pc' = "start" /\ op'.todo = {} /\ op'.oidx = 0 /\ index' = 1
        /\ again' = FALSE /\ UNCHANGED <<mail, sems, list, packet, read>>
    BY DEF Kill, NoOp
  <1>3. \A a \in Areas : counted'[a] \subseteq mail[a]
    BY <1>2
  <1>4. Filed'
    BY <1>2, <1>3, FiledSame DEF TypeInv, Filed
  <1>5. OrderOf(idx', Areas)
    BY <1>2, InOrderIs
  <1>6. Shown'
    BY <1>2, <1>5, Sizes DEF Shown, Places
  <1> QED BY <1>1, <1>4, <1>6 DEF TypeInv

LEMMA TypeNext == TypeInv /\ [Next]_vars => TypeInv'
  <1> SUFFICES ASSUME TypeInv, [Next]_vars PROVE TypeInv'
    OBVIOUS
  <1>1. CASE UNCHANGED vars
    <2>1. /\ IInv'
          /\ UNCHANGED <<mail, read, counted, sems, list, packet, again, idx, current, pc, op, index>>
      BY <1>1, InvNext, OrderAssumption DEF TypeInv, vars, outside
    <2>2. Filed' /\ Shown'
      BY <2>1 DEF TypeInv, Filed, Shown, Mail, current
    <2> QED BY <2>1, <2>2 DEF TypeInv
  <1>2. CASE User
    BY <1>2, ListTyped, ReaderTyped, DestTyped DEF User
  <1> QED BY <1>1, <1>2, StartTyped, OtherTyped, ScanTyped, CheckTyped, MoveTyped, KillTyped DEF Next

LEMMA TypeIs == ASSUME TypeInv PROVE TypeOK
  <1>1. Len(idx) = Cardinality(Areas) /\ Range(idx) = Areas /\ index \in DOMAIN idx
    BY OrderPlaces DEF TypeInv, Shown, OrderOf
  <1>2. Cardinality(open) <= 2
    <2>1. PICK x, y : open \subseteq {x, y}
      BY DEF TypeInv, Shown
    <2>2. IsFiniteSet({x}) /\ Cardinality({x}) = 1
      BY FS_Singleton
    <2>3. IsFiniteSet({x} \cup {y}) /\ Cardinality({x} \cup {y}) \in {1, 2}
      BY <2>2, FS_AddElement
    <2>4. open \subseteq {x} \cup {y}
      BY <2>1
    <2>5. IsFiniteSet(open) /\ Cardinality(open) <= Cardinality({x} \cup {y})
      BY <2>3, <2>4, FS_Subset
    <2>6. Cardinality(open) \in Nat
      BY <2>5, FS_CardinalityType
    <2> QED BY <2>3, <2>5, <2>6
  <1> QED BY <1>1, <1>2 DEF TypeInv, Filed, Shown, TypeOK, Places

LEMMA TypesAlways == Spec => []TypeInv
  BY TypeInit, TypeNext, PTL DEF Spec

\* In every reachable state the list is a permutation of the areas with the bar
\* on one of them, at most two areas are open, and nothing is known of an area
\* that is not in its base: through scans, sorts, imports, moves and kills
\* (gealst.cpp, gearea.cpp, gescan.cpp).
THEOREM AreasTyped == Spec => []TypeOK
  <1>1. TypeInv => TypeOK
    BY TypeIs
  <1> QED BY <1>1, TypesAlways, PTL

\* When a scan asked for in the list is over, the bar is on the area it was on,
\* wherever the sort has put that area (AreaList::AreaScan, AreaIdToNo,
\* gealst.cpp).
THEOREM BarStays == Spec => BarKept
  <1> DEFINE Kept == pc = "scan" /\ op.caller = "list" /\ pc' = "list" => idx'[index'] = op.stecho
  <1>1. ASSUME TypeInv, [Next]_vars PROVE Kept
    <2> SUFFICES ASSUME pc = "scan", op.caller = "list", pc' = "list" PROVE idx'[index'] = op.stecho
      OBVIOUS
    <2>1. ListScanned
      BY <1>1 DEF Next, vars, Startup, BeginScan, Tick, Scan, ScanArea, ScanEscape,
                  StartupScanned, CheckScanned, Check, CheckImport, ImportCrash, CheckExit, RemoveList,
                  CheckDone, CheckScan, Checking, User, MoveBar, SelectArea, SelectDest, Abort,
                  AbortDest, ScanKey, NewArea, JumpNext, PickDest, StepArea, Reading, Move,
                  CopyMsg, DeleteMsg, EndMove, Kill, Toss, Touch
    <2>2. idx' = Sorted(counted, read) /\ index' = AreaIdToNo(idx', op.stecho)
      BY <2>1 DEF ListScanned, Under
    <2>3. OrderOf(idx', Areas)
      BY <2>2, SortedIs
    <2>4. op.stecho \in Areas
      BY <1>1 DEF TypeInv, Shown
    <2> QED BY <2>2, <2>3, <2>4, OrderPlaces
  <1>2. [][Kept]_vars <=> BarKept
    BY DEF BarKept
  <1> QED BY <1>1, <1>2, TypesAlways, PTL DEF Spec
=============================================================================

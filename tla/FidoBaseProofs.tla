---------------------------- MODULE FidoBaseProofs ----------------------------
(***************************************************************************)
(* Proofs about FidoBase for one program, that of the user golded, and any *)
(* numbers, users and bounds.  The list of the program is the directory,   *)
(* between the moments when a file is removed and its number taken from    *)
(* the list, and except while files are renamed.                           *)
(***************************************************************************)
EXTENDS MCFidoBase, Counting

Listed == Msgn[golded]
Spot   == lastread[golded]
Now    == pc[golded]
Here   == msg[golded]
Own    == op[golded]

Waits      == {"idle", "create", "original", "link"}
Whole      == Waits \cup {"splice", "remove"}
Gone       == {"lastreads", "adjust"}
FidoPlaces == {"closed", "renumber"} \cup Whole \cup Gone

FidoTypes ==
    /\ TypeOK
    /\ Msgn \in [Running -> Seq(1..MaxMsgno)] /\ lastread \in [Running -> Nat]
    /\ pc \in [Users -> FidoPlaces] /\ \A v \in Users : v # golded => pc[v] = "closed"
    /\ \A n \in Files : dir[n].id \in DOMAIN answers

\* The number that the i-th message has while files are renamed.
NumberNow(i) == IF i < Own.no THEN i + Own.to - 1 ELSE Listed[i]

HalfRenumbered ==
    /\ Own.no \in 1..(Len(Listed) + 1) /\ Own.to \in {1, 2}
    /\ Rises(Listed, Range(Listed))
    /\ \A i \in 1..Len(Listed) : i + Own.to - 1 <= Listed[i]
    /\ Files = {NumberNow(i) : i \in 1..Len(Listed)}

FidoList ==
    /\ Now \in Whole => Rises(Listed, Files)
    /\ Now \in Gone => Here.no \notin Files /\ Rises(Listed, Files \cup {Here.no})
    /\ Now = "renumber" => HalfRenumbered /\ renumbered

\* A header in memory is that of the message in the file it was read from.
Known(m) == m.no # 0 => m.no \in Files /\ m.hdr.id = dir[m.no].id

FidoLocals ==
    /\ Now \in Whole => Known(Here)
    /\ Now \in {"splice", "remove"} \cup Gone => Here.no # 0
    /\ Now \in {"closed", "renumber"} => Here.no = 0
    /\ Now = "create" => /\ Own.no \in DOMAIN dir /\ \A n \in Files : n < Own.no
                         /\ Own.to \in {0, Here.no}
    /\ Now = "original" => Own.to \in Files
    /\ Now = "link" => Known(Own.up)
    /\ Now = "splice" => Known(Own.up) /\ Known(Own.down)
    /\ Now = "adjust" => Own.lr = lastreads

\* What lies up to a position or a pointer has been read; and the pointers of
\* the other users are not above all messages.
NoneHidden(u) == \A n \in Files : n <= lastreads[u] => dir[n].id \notin unread[u]
Scanned == IF Now = "closed" THEN Files ELSE Range(Listed)
LowPointer(u) == lastreads[u] = 0 \/ \E n \in Scanned : lastreads[u] <= n

FidoSeen ==
    /\ Now \in Waits => \A i \in 1..Spot : dir[Listed[i]].id \notin unread[golded]
    /\ Now = "renumber" => \A i \in 1..Spot : dir[NumberNow(i)].id \notin unread[golded]
    /\ Now = "closed" => NoneHidden(golded)
    /\ ~renumbered => \A v \in Users : v # golded => NoneHidden(v) /\ LowPointer(v)

FidoInv == FidoTypes /\ FidoList /\ FidoLocals /\ FidoSeen

\* What a step does to the files: they stay those of the same messages, there is
\* one more behind them, one less, or one has another name in the same place.
SameIds(S) == \A n \in S : dir'[n].id = dir[n].id
FilesStay  == Files' = Files /\ SameIds(Files) /\ answers' = answers
FileAdded  == \E k \in 1..MaxMsgno :
    /\ Files' = Files \cup {k} /\ \A n \in Files : n < k
    /\ SameIds(Files) /\ dir'[k].id = Len(answers) + 1 /\ Len(answers') = Len(answers) + 1
FileRemoved == answers' = answers /\ \E k \in Files : Files' = Files \ {k} /\ SameIds(Files')
FileRenamed == answers' = answers /\ \E old \in Files, new \in 1..MaxMsgno :
    /\ Files' = (Files \ {old}) \cup {new} /\ dir'[new].id = dir[old].id /\ SameIds(Files \ {old})
    /\ \A n \in Files \ {old} : n # new /\ (n < new <=> n < old)

-----------------------------------------------------------------------------
LEMMA FidoFacts ==
    ASSUME FidoTypes
    PROVE  /\ golded \in Users /\ Running = {golded}
           /\ DOMAIN dir = 1..MaxMsgno /\ \A n \in 1..MaxMsgno : dir[n] \in Messages
           /\ Files \subseteq 1..MaxMsgno /\ IsFiniteSet(Files)
           /\ \A n \in Files : dir[n].id \in Nat
           /\ Listed \in Seq(1..MaxMsgno) /\ Spot \in 0..Len(Listed)
           /\ Here \in Loaded /\ Now \in FidoPlaces /\ MaxMsgno \in Nat
  <1> USE AloneAssumption, UserAssumption, NumberAssumption
  <1>1. golded \in Users /\ Running = {golded} /\ MaxMsgno \in Nat
    OBVIOUS
  <1>2. dir \in [1..MaxMsgno -> Messages]
    BY DEF FidoTypes, TypeOK
  <1>3. Files \subseteq 1..MaxMsgno
    BY <1>2 DEF Files
  <1>4. IsFiniteSet(Files)
    <2>1. IsFiniteSet(1..MaxMsgno)
      BY <1>1, FS_Interval
    <2> QED BY <1>3, <2>1, FS_Subset
  <1>5. \A n \in Files : dir[n].id \in Nat
    BY <1>2, <1>3 DEF Messages
  <1>6. Listed \in Seq(1..MaxMsgno) /\ Spot \in 0..Len(Listed) /\ Here \in Loaded
    BY <1>1 DEF FidoTypes, TypeOK, Listed, Spot, Here
  <1>7. Now \in FidoPlaces
    BY <1>1 DEF FidoTypes, Now
  <1> QED BY <1>1, <1>2, <1>3, <1>4, <1>5, <1>6, <1>7

\* A list of numbers of files has the type of the model's lists.
LEMMA RisesIn ==
    ASSUME NEW s, NEW R, Rises(s, R), NEW n \in Nat, R \subseteq 1..n
    PROVE  s \in Seq(1..n) /\ Len(s) \in Nat /\ DOMAIN s = 1..Len(s)
           /\ \A i \in 1..Len(s) : s[i] \in R
  <1>1. s \in Seq(Nat) /\ Range(s) = R
    BY DEF Rises
  <1>2. Len(s) \in Nat /\ DOMAIN s = 1..Len(s) /\ \A i \in 1..Len(s) : s[i] \in R
    BY <1>1 DEF Range
  <1>3. \A i \in 1..Len(s) : s[i] \in 1..n
    BY <1>2
  <1>4. s = [i \in 1..Len(s) |-> s[i]]
    BY <1>1
  <1> QED BY <1>2, <1>3, <1>4

\* GTag::ToReln gives the place of a number, if the list has it.
LEMMA ToRelnFacts ==
    ASSUME NEW s, NEW T, s \in Seq(T), NEW n
    PROVE  /\ ToReln(s, n) \in 0..Len(s)
           /\ ToReln(s, n) # 0 => n \in Range(s)
  BY DEF ToReln, Range

\* Opening the area, and raw_scan.
LEMMA FidoScan ==
    ASSUME FidoTypes, NEW lr \in Nat
    PROVE  /\ Rises(InOrder(Files), Files) /\ InOrder(Files) \in Seq(1..MaxMsgno)
           /\ ScanLastread(Files, lr) \in 0..Len(InOrder(Files))
           /\ \A i \in 1..ScanLastread(Files, lr) :
                 InOrder(Files)[i] \in Files /\ InOrder(Files)[i] <= lr
  <1>1. Files \subseteq 1..MaxMsgno /\ IsFiniteSet(Files) /\ MaxMsgno \in Nat
    BY FidoFacts
  <1>2. Rises(InOrder(Files), Files)
    BY <1>1, InOrderRises
  <1>3. ScanLastread(Files, lr) = Rank(Files, lr)
    BY DEF ScanLastread, Rank
  <1> HIDE DEF Files
  <1>4. /\ Rank(Files, lr) \in 0..Len(InOrder(Files))
        /\ \A i \in 1..Rank(Files, lr) :
              i \in 1..Len(InOrder(Files)) /\ InOrder(Files)[i] <= lr
    BY <1>1, <1>2, RisesUpTo
  <1>5. InOrder(Files) \in Seq(1..MaxMsgno)
        /\ \A i \in 1..Len(InOrder(Files)) : InOrder(Files)[i] \in Files
    BY <1>1, <1>2, RisesIn
  <1> QED BY <1>2, <1>3, <1>4, <1>5

LEMMA FidoInit == Init => FidoInv
  <1> SUFFICES ASSUME Init PROVE FidoInv
    OBVIOUS
  <1> USE AloneAssumption, UserAssumption, NumberAssumption
  <1>1. FirstNos \subseteq 1..MaxMsgno /\ IsFiniteSet(FirstNos) /\ FirstNos \subseteq Int
        /\ MaxMsgno \in Nat /\ golded \in Users /\ Running = {golded}
    <2>1. IsFiniteSet(1..MaxMsgno) /\ MaxMsgno \in Nat
      BY FS_Interval
    <2>2. FirstNos \subseteq 1..MaxMsgno
      OBVIOUS
    <2>3. IsFiniteSet(FirstNos)
      BY <2>1, <2>2, FS_Subset
    <2>4. golded \in Users /\ Running = {golded}
      OBVIOUS
    <2> QED BY <2>1, <2>2, <2>3, <2>4
  <1> DEFINE c == Cardinality(FirstNos)
  <1>2. c \in Nat /\ \A n \in FirstNos : First(n) \in 1..c
    <2>1. \A n \in FirstNos : First(n) = Rank(FirstNos, n)
      BY DEF First, Rank
    <2>2. \A n \in FirstNos : Rank(FirstNos, n) \in 1..c
      BY <1>1, RankInjective
    <2> QED BY <1>1, <2>1, <2>2, FS_CardinalityType
  <1>3. \A m, n \in FirstNos : First(m) = First(n) => m = n
    <2>1. \A n \in FirstNos : First(n) = Rank(FirstNos, n)
      BY DEF First, Rank
    <2>2. \A m, n \in FirstNos : Rank(FirstNos, m) = Rank(FirstNos, n) => m = n
      BY <1>1, RankInjective
    <2> HIDE DEF First
    <2> QED BY <2>1, <2>2
  <1> HIDE DEF c, First
  <1>4. /\ answers = [i \in 1..c |-> 0] /\ ~renumbered
        /\ dir = [n \in 1..MaxMsgno |-> IF n \in FirstNos THEN Message(First(n), 0, 0) ELSE NoFile]
        /\ unread = [u \in Users |-> {First(n) : n \in {m \in FirstNos : m > lastreads[u]}}]
    BY DEF Init, c
  <1>5. Files = FirstNos /\ \A n \in FirstNos : dir[n].id = First(n)
    <2>1. \A n \in FirstNos : Message(First(n), 0, 0) # NoFile /\ Message(First(n), 0, 0).id = First(n)
      <3>1. \A n \in FirstNos : First(n) # 0
        BY <1>2
      <3> QED BY <3>1 DEF Message, NoFile
    <2>2. \A n \in FirstNos : n \in 1..MaxMsgno /\ dir[n] = Message(First(n), 0, 0)
      BY <1>1, <1>4
    <2>3. \A n \in 1..MaxMsgno : n \notin FirstNos => dir[n] = NoFile
      BY <1>4
    <2>4. DOMAIN dir = 1..MaxMsgno
      BY <1>4
    <2> QED BY <2>1, <2>2, <2>3, <2>4 DEF Files
  <1>6. answers \in Seq(Nat) /\ DOMAIN answers = 1..c
    BY <1>2, <1>4
  <1>7. dir \in [1..MaxMsgno -> Messages]
    <2>1. \A n \in FirstNos : Message(First(n), 0, 0) \in Messages
      BY <1>2 DEF Message, Messages
    <2>2. NoFile \in Messages
      BY DEF NoFile, Message, Messages
    <2> QED BY <1>4, <2>1, <2>2
  <1>8. NoMsg \in Loaded /\ NoMsg.no = 0
    BY DEF NoMsg, Loaded, NoFile, Message, Messages
  <1>9. TypeOK
    <2>1. lastreads \in [Users -> 0..MaxMsgno]
      <3>1. {0} \cup FirstNos \subseteq 0..MaxMsgno
        BY <1>1
      <3>2. lastreads \in [Users -> {0} \cup FirstNos]
        BY DEF Init
      <3> QED BY <3>1, <3>2
    <2>2. \A u \in Running : Msgn[u] \in Seq(1..MaxMsgno) /\ lastread[u] \in 0..Len(Msgn[u])
      <3>1. \A u \in Running : Msgn[u] = <<>> /\ lastread[u] = 0
        BY DEF Init
      <3>2. <<>> \in Seq(1..MaxMsgno) /\ 0 \in 0..Len(<<>>)
        OBVIOUS
      <3> QED BY <3>1, <3>2
    <2>3. msg \in [Running -> Loaded]
      BY <1>8 DEF Init
    <2>4. op \in [Running -> [no : Nat, to : Nat, down : Loaded, up : Loaded,
                              lread : 0..MaxMsgno, lr : [Users -> 0..MaxMsgno]]]
      BY <1>8 DEF Init, NoOp
    <2>5. unread \in [Users -> SUBSET DOMAIN answers]
      BY <1>2, <1>4, <1>6
    <2> QED BY <1>6, <1>7, <2>1, <2>2, <2>3, <2>4, <2>5 DEF TypeOK
  <1>10. FidoTypes
    <2>1. Msgn \in [Running -> Seq(1..MaxMsgno)] /\ lastread \in [Running -> Nat]
      BY DEF Init
    <2>2. pc \in [Users -> FidoPlaces] /\ \A v \in Users : pc[v] = "closed"
      BY DEF Init, FidoPlaces
    <2> QED BY <1>2, <1>5, <1>6, <1>9, <2>1, <2>2 DEF FidoTypes
  <1>11. Now = "closed" /\ Here = NoMsg
    BY <1>1 DEF Init, Now, Here
  <1>12. FidoList /\ FidoLocals
    BY <1>8, <1>11 DEF FidoList, FidoLocals, Whole, Waits, Gone
  <1>13. \A v \in Users : NoneHidden(v) /\ LowPointer(v)
    <2> SUFFICES ASSUME NEW v \in Users PROVE NoneHidden(v) /\ LowPointer(v)
      OBVIOUS
    <2>1. lastreads[v] \in {0} \cup FirstNos /\ lastreads[v] \in Int
      <3>1. lastreads[v] \in {0} \cup FirstNos
        BY DEF Init
      <3>2. {0} \cup FirstNos \subseteq Int
        BY <1>1
      <3> QED BY <3>1, <3>2
    <2>2. LowPointer(v)
      <3>1. lastreads[v] = 0 \/ \E n \in Files : lastreads[v] <= n
        BY <1>5, <2>1
      <3> QED BY <1>11, <3>1 DEF LowPointer, Scanned
    <2>3. ASSUME NEW n \in FirstNos, n <= lastreads[v] PROVE First(n) \notin unread[v]
      <3> SUFFICES ASSUME NEW m \in FirstNos, m > lastreads[v], First(n) = First(m) PROVE FALSE
        BY <1>4
      <3>1. m = n
        BY <1>3
      <3>2. m \in Int /\ lastreads[v] \in Int
        BY <1>1, <2>1
      <3> QED BY <2>3, <3>1, <3>2
    <2> QED BY <1>5, <2>2, <2>3 DEF NoneHidden
  <1>14. FidoSeen
    BY <1>1, <1>11, <1>13 DEF FidoSeen, Waits
  <1> QED BY <1>10, <1>12, <1>14 DEF FidoInv

\* What has been said of the other users stays true while messages, pointers
\* and what is listed stay.
LEMMA OthersKept ==
    ASSUME FidoSeen, renumbered' = renumbered, Scanned \subseteq Scanned', Files' \subseteq Files,
           \A n \in Files' : dir'[n].id = dir[n].id,
           \A v \in Users : v # golded => /\ lastreads'[v] = lastreads[v]
                                          /\ unread'[v] \subseteq unread[v]
    PROVE  ~renumbered' => \A v \in Users : v # golded => NoneHidden(v)' /\ LowPointer(v)'
  <1> SUFFICES ASSUME ~renumbered, NEW v \in Users, v # golded
               PROVE  NoneHidden(v)' /\ LowPointer(v)'
    OBVIOUS
  <1>1. NoneHidden(v) /\ LowPointer(v) /\ lastreads'[v] = lastreads[v] /\ unread'[v] \subseteq unread[v]
    BY DEF FidoSeen
  <1>2. NoneHidden(v)'
    BY <1>1 DEF NoneHidden
  <1>3. LowPointer(v)'
    BY <1>1 DEF LowPointer
  <1> QED BY <1>2, <1>3

LEMMA FidoOpen == ASSUME FidoInv, Open(golded) PROVE FidoInv'
  <1> DEFINE lr == lastreads[golded]
  <1>1. FidoTypes /\ FidoList /\ FidoLocals /\ FidoSeen
    BY DEF FidoInv
  <1>2. /\ golded \in Users /\ Running = {golded} /\ lr \in Nat /\ MaxMsgno \in Nat
        /\ DOMAIN Msgn = Running /\ DOMAIN lastread = Running /\ DOMAIN pc = Users
    BY <1>1, FidoFacts DEF FidoTypes, TypeOK
  <1>3. /\ Now = "closed" /\ pc' = [pc EXCEPT ![golded] = "idle"]
        /\ Msgn' = [Msgn EXCEPT ![golded] = InOrder(Files)]
        /\ lastread' = [lastread EXCEPT ![golded] = ScanLastread(Files, lr)]
        /\ UNCHANGED <<dir, lastreads, msg, op, answers, unread, renumbered>>
    BY DEF Open, Scan, history, Now
  <1>4. /\ Now' = "idle" /\ Listed' = InOrder(Files) /\ Spot' = ScanLastread(Files, lr)
        /\ Here' = Here /\ Own' = Own
    BY <1>2, <1>3 DEF Now, Listed, Spot, Here, Own
  <1>5. Files' = Files
    BY <1>3 DEF Files
  <1>6. /\ Rises(InOrder(Files), Files) /\ InOrder(Files) \in Seq(1..MaxMsgno)
        /\ ScanLastread(Files, lr) \in 0..Len(InOrder(Files))
        /\ \A i \in 1..ScanLastread(Files, lr) :
              InOrder(Files)[i] \in Files /\ InOrder(Files)[i] <= lr
    BY <1>1, <1>2, FidoScan
  <1> HIDE DEF lr
  <1>7. FidoTypes'
    <2>1. Msgn' \in [Running -> Seq(1..MaxMsgno)] /\ lastread' \in [Running -> Nat]
      <3>1. ScanLastread(Files, lr) \in Nat
        BY <1>6
      <3> QED BY <1>1, <1>3, <1>6, <3>1 DEF FidoTypes
    <2>2. \A u \in Running : Msgn'[u] \in Seq(1..MaxMsgno) /\ lastread'[u] \in 0..Len(Msgn'[u])
      BY <1>2, <1>4, <1>6 DEF Listed, Spot
    <2>3. TypeOK'
      BY <1>1, <1>3, <2>2 DEF FidoTypes, TypeOK
    <2>4. pc' \in [Users -> FidoPlaces] /\ \A v \in Users : v # golded => pc'[v] = "closed"
      BY <1>1, <1>2, <1>3 DEF FidoTypes, FidoPlaces, Whole, Waits
    <2> QED BY <1>1, <1>3, <1>5, <2>1, <2>3, <2>4 DEF FidoTypes
  <1>8. FidoList' /\ FidoLocals'
    BY <1>1, <1>3, <1>4, <1>5, <1>6 DEF FidoList, FidoLocals, Known, Whole, Waits, Gone
  <1>9. FidoSeen'
    <2>1. \A i \in 1..Spot' : dir'[Listed'[i]].id \notin unread'[golded]
      BY <1>1, <1>3, <1>4, <1>6 DEF FidoSeen, NoneHidden, lr
    <2>2. Scanned' = Scanned
      BY <1>3, <1>4, <1>6 DEF Scanned, Rises
    <2>3. ~renumbered' => \A v \in Users : v # golded => NoneHidden(v)' /\ LowPointer(v)'
      BY <1>1, <1>3, <1>5, <2>2, OthersKept
    <2> QED BY <1>4, <2>1, <2>3 DEF FidoSeen, Waits
  <1> QED BY <1>7, <1>8, <1>9 DEF FidoInv

\* What is saved as lastread: nothing beyond the position lies at it or below.
LEMMA PointerFacts ==
    ASSUME FidoTypes, NEW R, Rises(Listed, R)
    PROVE  /\ CvtReln(Listed, Spot) \in 0..MaxMsgno
           /\ \A n \in R : n <= CvtReln(Listed, Spot) => \E i \in 1..Spot : n = Listed[i]
  <1>1. /\ Listed \in Seq(1..MaxMsgno) /\ Spot \in 0..Len(Listed) /\ MaxMsgno \in Nat
        /\ Len(Listed) \in Nat /\ DOMAIN Listed = 1..Len(Listed)
        /\ \A i \in 1..Len(Listed) : Listed[i] \in 1..MaxMsgno
    BY FidoFacts
  <1>2. R = Range(Listed) /\ \A i, j \in 1..Len(Listed) : i < j => Listed[i] < Listed[j]
    BY DEF Rises
  <1>3. CASE Spot = 0
    <2>1. CvtReln(Listed, Spot) = 0
      BY <1>1, <1>3 DEF CvtReln
    <2>2. \A n \in R : n \in 1..MaxMsgno
      BY <1>1, <1>2 DEF Range
    <2> QED BY <1>1, <2>1, <2>2
  <1>4. CASE Spot # 0
    <2>1. Spot \in 1..Len(Listed) /\ CvtReln(Listed, Spot) = Listed[Spot]
      BY <1>1, <1>4 DEF CvtReln
    <2>2. ASSUME NEW n \in R, n <= Listed[Spot] PROVE \E i \in 1..Spot : n = Listed[i]
      <3>1. PICK i \in 1..Len(Listed) : n = Listed[i]
        BY <1>1, <1>2 DEF Range
      <3>2. ~ (Spot < i)
        <4>1. Listed[i] \in Nat /\ Listed[Spot] \in Nat
          BY <1>1, <2>1
        <4>2. Spot < i => Listed[Spot] < Listed[i]
          BY <1>2, <2>1
        <4> QED BY <2>2, <3>1, <4>1, <4>2
      <3>3. i \in 1..Spot
        BY <1>1, <2>1, <3>2
      <3> QED BY <3>1, <3>3
    <2>3. Listed[Spot] \in 0..MaxMsgno
      BY <1>1, <2>1
    <2> QED BY <2>1, <2>2, <2>3
  <1> QED BY <1>3, <1>4

\* Closing the area, and suspending it: the lastread pointer is saved.
LEMMA FidoCloses ==
    ASSUME FidoInv, Close(golded) \/ Suspend(golded)
    PROVE  FidoInv'
  <1>1. FidoTypes /\ FidoList /\ FidoLocals /\ FidoSeen
    BY DEF FidoInv
  <1>2. /\ golded \in Users /\ Running = {golded} /\ MaxMsgno \in Nat
        /\ DOMAIN Msgn = Running /\ DOMAIN lastread = Running /\ DOMAIN pc = Users
        /\ DOMAIN lastreads = Users /\ DOMAIN msg = Running
    BY <1>1, FidoFacts DEF FidoTypes, TypeOK
  <1> DEFINE lr == CvtReln(Listed, Spot)
  <1>3. /\ Now = "idle" /\ lastreads' = [lastreads EXCEPT ![golded] = lr]
        /\ UNCHANGED <<dir, op, answers, unread, renumbered>>
        /\ \/ /\ Msgn' = [Msgn EXCEPT ![golded] = <<>>]
              /\ lastread' = [lastread EXCEPT ![golded] = 0]
              /\ msg' = [msg EXCEPT ![golded] = NoMsg]
              /\ pc' = [pc EXCEPT ![golded] = "closed"]
           \/ UNCHANGED <<Msgn, lastread, msg, pc>>
    BY DEF Close, Suspend, SaveLastread, history, Now, Listed, Spot
  <1>4. Rises(Listed, Files)
    BY <1>1, <1>3 DEF FidoList, Whole, Waits
  <1>5. lr \in 0..MaxMsgno /\ \A n \in Files : n <= lr => \E i \in 1..Spot : n = Listed[i]
    BY <1>1, <1>4, PointerFacts
  <1> HIDE DEF lr
  <1>6. Files' = Files
    BY <1>3 DEF Files
  <1>7. /\ Own' = Own
        /\ \/ Now' = "closed" /\ Here' = NoMsg /\ Listed' = <<>> /\ Spot' = 0
           \/ Now' = "idle" /\ Here' = Here /\ Listed' = Listed /\ Spot' = Spot
    BY <1>2, <1>3 DEF Now, Here, Listed, Spot, Own
  <1>8. NoMsg \in Loaded /\ NoMsg.no = 0
    BY DEF NoMsg, Loaded, NoFile, Message, Messages
  <1>9. FidoTypes'
    <2>1. <<>> \in Seq(1..MaxMsgno) /\ 0 \in 0..Len(<<>>)
      OBVIOUS
    <2>2. Msgn' \in [Running -> Seq(1..MaxMsgno)] /\ lastread' \in [Running -> Nat]
      <3>1. Msgn' \in [Running -> Seq(1..MaxMsgno)]
        BY <1>1, <1>3, <2>1 DEF FidoTypes
      <3>2. lastread' \in [Running -> Nat]
        BY <1>1, <1>3 DEF FidoTypes
      <3> QED BY <3>1, <3>2
    <2>3. \A u \in Running : Msgn'[u] \in Seq(1..MaxMsgno) /\ lastread'[u] \in 0..Len(Msgn'[u])
      BY <1>1, <1>2, <1>7, <2>1, FidoFacts DEF Listed, Spot
    <2>4. msg' \in [Running -> Loaded] /\ lastreads' \in [Users -> 0..MaxMsgno]
      <3>1. msg' \in [Running -> Loaded]
        <4>1. msg \in [Running -> Loaded]
          BY <1>1 DEF FidoTypes, TypeOK
        <4>2. msg' = [msg EXCEPT ![golded] = NoMsg] \/ msg' = msg
          BY <1>3
        <4> HIDE DEF Files
        <4> QED BY <1>8, <4>1, <4>2
      <3>2. lastreads' \in [Users -> 0..MaxMsgno]
        BY <1>1, <1>3, <1>5 DEF FidoTypes, TypeOK
      <3> QED BY <3>1, <3>2
    <2>5. TypeOK'
      BY <1>1, <1>3, <2>3, <2>4 DEF FidoTypes, TypeOK
    <2>6. pc' \in [Users -> FidoPlaces] /\ \A v \in Users : v # golded => pc'[v] = "closed"
      BY <1>1, <1>2, <1>3 DEF FidoTypes, FidoPlaces, Whole, Waits
    <2> QED BY <1>1, <1>3, <1>6, <2>2, <2>5, <2>6 DEF FidoTypes
  <1>10. FidoList' /\ FidoLocals'
    BY <1>1, <1>3, <1>4, <1>6, <1>7, <1>8 DEF FidoList, FidoLocals, Known, Whole, Waits, Gone
  <1>11. FidoSeen'
    <2>1. \A i \in 1..Spot : dir[Listed[i]].id \notin unread[golded]
      BY <1>1, <1>3 DEF FidoSeen, Waits
    <2>2. NoneHidden(golded)'
      BY <1>2, <1>3, <1>5, <1>6, <2>1 DEF NoneHidden
    <2>3. Scanned' = Scanned
      BY <1>3, <1>4, <1>6, <1>7 DEF Scanned, Rises
    <2>4. ~renumbered' => \A v \in Users : v # golded => NoneHidden(v)' /\ LowPointer(v)'
      <3>1. \A v \in Users : v # golded => lastreads'[v] = lastreads[v]
        BY <1>2, <1>3
      <3> QED BY <1>1, <1>3, <1>6, <2>3, <3>1, OthersKept
    <2> QED BY <1>3, <1>7, <2>1, <2>2, <2>4 DEF FidoSeen, Waits
  <1> QED BY <1>9, <1>10, <1>11 DEF FidoInv

LEMMA FidoRead == ASSUME FidoInv, Read(golded) PROVE FidoInv'
  <1>1. FidoTypes /\ FidoList /\ FidoLocals /\ FidoSeen
    BY DEF FidoInv
  <1>2. /\ golded \in Users /\ Running = {golded} /\ MaxMsgno \in Nat
        /\ DOMAIN Msgn = Running /\ DOMAIN lastread = Running
        /\ DOMAIN msg = Running /\ DOMAIN unread = Users
        /\ Listed \in Seq(1..MaxMsgno) /\ Spot \in 0..Len(Listed)
    BY <1>1, FidoFacts DEF FidoTypes, TypeOK
  <1>3. PICK r \in DOMAIN Listed :
        /\ Now = "idle" /\ lastread' = [lastread EXCEPT ![golded] = r]
        /\ msg' = [msg EXCEPT ![golded] = IF Listed[r] \in Files
                        THEN [no |-> Listed[r], hdr |-> dir[Listed[r]]] ELSE NoMsg]
        /\ unread' = [unread EXCEPT ![golded] = @ \ {dir[Listed[i]].id : i \in 1..r}]
        /\ UNCHANGED <<dir, lastreads, Msgn, pc, op, answers, renumbered>>
    BY DEF Read, Pass, Now, Listed
  <1>4. r \in 1..Len(Listed) /\ r \in Nat
    BY <1>2
  <1>5. Files' = Files
    BY <1>3 DEF Files
  <1>6. /\ Now' = "idle" /\ Listed' = Listed /\ Spot' = r /\ Own' = Own
        /\ Here' = IF Listed[r] \in Files
                   THEN [no |-> Listed[r], hdr |-> dir[Listed[r]]] ELSE NoMsg
    BY <1>2, <1>3 DEF Now, Here, Listed, Spot, Own
  <1>7. Here' \in Loaded /\ NoMsg.no = 0 /\ (Here'.no # 0 => Here'.no \in Files /\ Here'.hdr.id = dir[Here'.no].id)
    <2>1. NoMsg \in Loaded /\ NoMsg.no = 0
      BY DEF NoMsg, Loaded, NoFile, Message, Messages
    <2>2. \A n \in Files : [no |-> n, hdr |-> dir[n]] \in Loaded
      BY <1>1, FidoFacts DEF Loaded
    <2> QED BY <1>6, <2>1, <2>2
  <1>8. FidoTypes'
    <2>1. lastread' \in [Running -> Nat]
      BY <1>1, <1>3, <1>4 DEF FidoTypes
    <2>2. \A u \in Running : Msgn'[u] \in Seq(1..MaxMsgno) /\ lastread'[u] \in 0..Len(Msgn'[u])
      BY <1>2, <1>4, <1>6 DEF Listed, Spot
    <2>3. msg' \in [Running -> Loaded]
      BY <1>1, <1>2, <1>3, <1>6, <1>7 DEF FidoTypes, TypeOK
    <2>4. unread' \in [Users -> SUBSET DOMAIN answers]
      BY <1>1, <1>2, <1>3 DEF FidoTypes, TypeOK
    <2>5. TypeOK'
      BY <1>1, <1>3, <2>2, <2>3, <2>4 DEF FidoTypes, TypeOK
    <2> QED BY <1>1, <1>3, <1>5, <2>1, <2>5 DEF FidoTypes
  <1>9. FidoList' /\ FidoLocals'
    BY <1>1, <1>3, <1>5, <1>6, <1>7 DEF FidoList, FidoLocals, Known, Whole, Waits, Gone
  <1>10. FidoSeen'
    <2>1. \A i \in 1..Spot' : dir'[Listed'[i]].id \notin unread'[golded]
      BY <1>2, <1>3, <1>6
    <2>2. Scanned' = Scanned
      BY <1>3, <1>6 DEF Scanned
    <2>3. \A v \in Users : v # golded => unread'[v] = unread[v]
      BY <1>2, <1>3
    <2>4. ~renumbered' => \A v \in Users : v # golded => NoneHidden(v)' /\ LowPointer(v)'
      BY <1>1, <1>3, <1>5, <2>2, <2>3, OthersKept
    <2> QED BY <1>6, <2>1, <2>4 DEF FidoSeen, Waits
  <1> QED BY <1>8, <1>9, <1>10 DEF FidoInv

\* A new number is above all there are.
LEMMA NumberAbove ==
    ASSUME FidoTypes, Rises(Listed, Files)
    PROVE  \A n \in Files : NewNumber(Listed) \in Nat => n < NewNumber(Listed)
  <1> SUFFICES ASSUME Files # {} PROVE NewNumber(Listed) \in Nat /\ \A n \in Files : n < NewNumber(Listed)
    OBVIOUS
  <1>1. /\ Files \subseteq 1..MaxMsgno /\ MaxMsgno \in Nat
        /\ Listed \in Seq(1..MaxMsgno)
    BY FidoFacts
  <1> DEFINE top == Listed[Len(Listed)]
  <1>2. top \in Files /\ \A n \in Files : n <= top
    BY RisesLast
  <1>3. CvtReln(Listed, Len(Listed)) = top
    <2>1. Files = {Listed[i] : i \in 1..Len(Listed)}
      BY <1>1 DEF Rises, Range
    <2>2. Len(Listed) \in DOMAIN Listed
      BY <1>1, <2>1
    <2> QED BY <2>2 DEF CvtReln
  <1> HIDE DEF top
  <1>4. top + 1 \notin Files /\ top \in 1..MaxMsgno
    BY <1>1, <1>2
  <1>5. FreeFrom(top + 1) \in (top + 1)..(MaxMsgno + 1)
    <2>1. \E m \in (top + 1)..(MaxMsgno + 1) : m \notin Files /\ ((top + 1)..(m - 1)) \subseteq Files
      <3>1. top + 1 \in (top + 1)..(MaxMsgno + 1) /\ (top + 1)..(top + 1 - 1) = {}
        BY <1>1, <1>4
      <3> QED BY <1>4, <3>1
    <2> QED BY <2>1 DEF FreeFrom
  <1>6. FreeFrom(top + 1) \in Nat /\ FreeFrom(top + 1) > top /\ FreeFrom(top + 1) # 1
    BY <1>1, <1>4, <1>5
  <1>7. NewNumber(Listed) = FreeFrom(top + 1)
    BY <1>3, <1>6 DEF NewNumber
  <1>8. \A n \in Files : n \in Nat
    BY <1>1
  <1>9. top \in Nat
    BY <1>4
  <1> HIDE DEF Files
  <1> QED BY <1>2, <1>6, <1>7, <1>8, <1>9

-----------------------------------------------------------------------------
FidoOps == [no : Nat, to : Nat, down : Loaded, up : Loaded,
            lread : 0..MaxMsgno, lr : [Users -> 0..MaxMsgno]]

LEMMA FidoForms ==
    ASSUME FidoTypes
    PROVE  /\ Msgn = [Msgn EXCEPT ![golded] = Listed]
           /\ lastread = [lastread EXCEPT ![golded] = Spot]
           /\ msg = [msg EXCEPT ![golded] = Here] /\ op = [op EXCEPT ![golded] = Own]
           /\ DOMAIN Msgn = {golded} /\ DOMAIN lastread = {golded}
           /\ DOMAIN msg = {golded} /\ DOMAIN op = {golded} /\ DOMAIN pc = Users
           /\ DOMAIN lastreads = Users /\ DOMAIN unread = Users
           /\ Own \in FidoOps /\ answers \in Seq(Nat) /\ DOMAIN answers = 1..Len(answers)
           /\ Len(answers) \in Nat /\ \A v \in Users : unread[v] \subseteq DOMAIN answers
           /\ lastreads \in [Users -> 0..MaxMsgno]
  <1>1. Running = {golded}
    BY AloneAssumption
  <1>2. DOMAIN Msgn = {golded} /\ DOMAIN lastread = {golded} /\ DOMAIN pc = Users
    BY <1>1 DEF FidoTypes
  <1>3. /\ DOMAIN msg = {golded} /\ msg \in [Running -> Loaded]
        /\ lastreads \in [Users -> 0..MaxMsgno]
        /\ unread \in [Users -> SUBSET DOMAIN answers] /\ answers \in Seq(Nat)
    BY <1>1 DEF FidoTypes, TypeOK
  <1>4. op \in [Running -> FidoOps]
    BY DEF FidoTypes, TypeOK, FidoOps
  <1>5. Own \in FidoOps /\ DOMAIN op = {golded}
    BY <1>1, <1>4 DEF Own
  <1>6. /\ Msgn \in [Running -> Seq(1..MaxMsgno)] /\ lastread \in [Running -> Nat]
    BY DEF FidoTypes
  <1>7. Msgn = [Msgn EXCEPT ![golded] = Listed] /\ lastread = [lastread EXCEPT ![golded] = Spot]
    BY <1>6 DEF Listed, Spot
  <1>8. msg = [msg EXCEPT ![golded] = Here] /\ op = [op EXCEPT ![golded] = Own]
    BY <1>3, <1>4 DEF Here, Own
  <1> QED BY <1>2, <1>3, <1>5, <1>7, <1>8

\* Every step changes only what the program has of its own.
LEMMA FidoTyped ==
    ASSUME FidoTypes,
           dir' \in [1..MaxMsgno -> Messages], lastreads' \in [Users -> 0..MaxMsgno],
           Msgn' = [Msgn EXCEPT ![golded] = Listed'], Listed' \in Seq(1..MaxMsgno),
           lastread' = [lastread EXCEPT ![golded] = Spot'], Spot' \in 0..Len(Listed'),
           msg' = [msg EXCEPT ![golded] = Here'], Here' \in Loaded,
           op' = [op EXCEPT ![golded] = Own'], Own' \in FidoOps,
           pc' = [pc EXCEPT ![golded] = Now'], Now' \in FidoPlaces,
           answers' \in Seq(Nat), unread' \in [Users -> SUBSET DOMAIN answers'],
           \A n \in Files' : dir'[n].id \in DOMAIN answers'
    PROVE  FidoTypes'
  <1>1. Running = {golded} /\ golded \in Users
    BY AloneAssumption, FidoFacts
  <1>2. Spot' \in Nat
    BY DEF FidoTypes
  <1>3. Msgn' \in [Running -> Seq(1..MaxMsgno)]
    BY DEF FidoTypes
  <1>4. lastread' \in [Running -> Nat]
    BY <1>2 DEF FidoTypes
  <1>5. pc' \in [Users -> FidoPlaces] /\ \A v \in Users : v # golded => pc'[v] = "closed"
    BY DEF FidoTypes
  <1>6. msg' \in [Running -> Loaded]
    BY DEF FidoTypes, TypeOK
  <1>7. op \in [Running -> FidoOps]
    BY DEF FidoTypes, TypeOK, FidoOps
  <1>8. op' \in [Running -> FidoOps]
    BY <1>7
  <1>9. \A u \in Running : Msgn'[u] \in Seq(1..MaxMsgno) /\ lastread'[u] \in 0..Len(Msgn'[u])
    BY <1>1 DEF Listed, Spot
  <1>10. TypeOK'
    BY <1>6, <1>8, <1>9 DEF TypeOK, FidoOps
  <1> QED BY <1>3, <1>4, <1>5, <1>10 DEF FidoTypes

\* Headers are rewritten in their own files.
LEMMA SameFiles ==
    ASSUME FidoTypes, dir' \in [1..MaxMsgno -> Messages],
           \A n \in 1..MaxMsgno : dir'[n] = dir[n] \/ (n \in Files /\ dir'[n].id = dir[n].id)
    PROVE  Files' = Files /\ \A n \in Files : dir'[n].id = dir[n].id
  <1>1. DOMAIN dir = 1..MaxMsgno /\ DOMAIN dir' = 1..MaxMsgno /\ Files \subseteq 1..MaxMsgno
    BY FidoFacts
  <1>2. \A n \in Files : dir[n].id # 0 /\ dir[n].id = dir'[n].id
    <2>1. \A n \in Files : dir[n].id \in 1..Len(answers)
      BY FidoForms DEF FidoTypes
    <2>2. \A n \in Files : dir[n].id # 0
      BY <2>1, FidoForms
    <2>3. \A n \in Files : dir'[n] = dir[n] \/ dir'[n].id = dir[n].id
      BY <1>1
    <2> QED BY <2>2, <2>3
  <1>3. \A n \in Files : dir'[n] # NoFile
    BY <1>2 DEF NoFile, Message
  <1>4. \A n \in 1..MaxMsgno : n \notin Files => dir'[n] = NoFile
    BY <1>1 DEF Files
  <1> QED BY <1>1, <1>2, <1>3, <1>4 DEF Files

\* What is shown has still been read.
LEMMA SeenKept ==
    ASSUME FidoInv, UNCHANGED <<lastreads, Msgn, lastread, unread, renumbered>>,
           Files' = Files, \A n \in Files : dir'[n].id = dir[n].id,
           Now \notin {"closed", "renumber"}, Now' \notin {"closed", "renumber"},
           Now' \in Waits => Now \in Waits
    PROVE  FidoSeen'
  <1>1. FidoTypes /\ FidoList /\ FidoSeen
    BY DEF FidoInv
  <1>2. Listed' = Listed /\ Spot' = Spot
    BY DEF Listed, Spot
  <1>3. Now' \in Waits => \A i \in 1..Spot' : dir'[Listed'[i]].id \notin unread'[golded]
    <2> SUFFICES ASSUME Now \in Waits, NEW i \in 1..Spot PROVE dir'[Listed[i]].id \notin unread[golded]
      BY <1>2
    <2>1. Rises(Listed, Files) /\ Spot \in 0..Len(Listed) /\ DOMAIN Listed = 1..Len(Listed)
          /\ Len(Listed) \in Nat
      BY <1>1, FidoFacts DEF FidoList, Whole
    <2>2. Listed[i] \in Files
      BY <2>1 DEF Rises, Range
    <2> QED BY <1>1, <2>2 DEF FidoSeen
  <1>4. Scanned' = Scanned
    BY <1>2 DEF Scanned
  <1>5. ~renumbered' => \A v \in Users : v # golded => NoneHidden(v)' /\ LowPointer(v)'
    BY <1>1, <1>4, OthersKept
  <1> QED BY <1>3, <1>5 DEF FidoSeen

LEMMA FidoPost ==
    ASSUME FidoInv, NEW mode, Post(golded, mode)
    PROVE  FidoInv'
  <1>1. FidoTypes /\ FidoList /\ FidoLocals /\ FidoSeen
    BY DEF FidoInv
  <1> DEFINE n == NewNumber(Listed)
             to == IF mode = "reply" THEN Here.no ELSE 0
  <1>2. /\ Now = "idle" /\ n \in DOMAIN dir
        /\ op' = [op EXCEPT ![golded].no = n, ![golded].to = to]
        /\ pc' = [pc EXCEPT ![golded] = "create"]
        /\ UNCHANGED <<dir, lastreads, Msgn, lastread, msg, answers, unread, renumbered>>
    BY DEF Post, history, Now, Listed, Here
  <1>3. n \in Nat /\ n \in DOMAIN dir /\ to \in {0, Here.no} /\ to \in Nat
    BY <1>1, <1>2, FidoFacts DEF Loaded
  <1>4. Rises(Listed, Files) /\ \A m \in Files : m < n
    <2>1. Rises(Listed, Files)
      BY <1>1, <1>2 DEF FidoList, Whole, Waits
    <2> QED BY <1>1, <1>3, <2>1, NumberAbove
  <1> HIDE DEF n, to
  <1>5. /\ Now' = "create" /\ Listed' = Listed /\ Spot' = Spot /\ Here' = Here
        /\ Own' = [Own EXCEPT !.no = n, !.to = to]
    BY <1>1, <1>2, FidoForms, FidoFacts DEF Now, Listed, Spot, Here, Own
  <1>6. Own' \in FidoOps /\ Own'.no = n /\ Own'.to = to
    BY <1>1, <1>3, <1>5, FidoForms DEF FidoOps
  <1>7. Files' = Files
    BY <1>2 DEF Files
  <1>8. FidoTypes'
    <2>1. op' = [op EXCEPT ![golded] = Own']
      BY <1>1, <1>2, <1>5, FidoForms DEF Own
    <2>2. /\ dir' \in [1..MaxMsgno -> Messages] /\ lastreads' \in [Users -> 0..MaxMsgno]
          /\ answers' \in Seq(Nat) /\ unread' \in [Users -> SUBSET DOMAIN answers']
      BY <1>1, <1>2 DEF FidoTypes, TypeOK
    <2>3. /\ Msgn' = [Msgn EXCEPT ![golded] = Listed'] /\ Listed' \in Seq(1..MaxMsgno)
          /\ lastread' = [lastread EXCEPT ![golded] = Spot'] /\ Spot' \in 0..Len(Listed')
          /\ msg' = [msg EXCEPT ![golded] = Here'] /\ Here' \in Loaded
      BY <1>1, <1>2, <1>5, FidoForms, FidoFacts
    <2>4. pc' = [pc EXCEPT ![golded] = Now'] /\ Now' \in FidoPlaces
      BY <1>2, <1>5 DEF FidoPlaces, Whole, Waits
    <2>5. \A m \in Files' : dir'[m].id \in DOMAIN answers'
      BY <1>1, <1>2, <1>7 DEF FidoTypes
    <2> QED BY <1>1, <1>6, <2>1, <2>2, <2>3, <2>4, <2>5, FidoTyped
  <1>9. FidoList'
    BY <1>4, <1>5, <1>7 DEF FidoList, Gone
  <1>10. FidoLocals'
    BY <1>1, <1>2, <1>3, <1>4, <1>5, <1>6, <1>7 DEF FidoLocals, Known, Whole, Waits, Gone
  <1>11. FidoSeen'
    BY <1>2, <1>5, <1>7, SeenKept DEF Waits
  <1> QED BY <1>8, <1>9, <1>10, <1>11 DEF FidoInv

\* A reply is created; it is linked to its original if that is in the list.
LEMMA FidoCreate == ASSUME FidoInv, Create(golded) PROVE FidoInv' /\ FileAdded
  <1>1. FidoTypes /\ FidoList /\ FidoLocals /\ FidoSeen
    BY DEF FidoInv
  <1> DEFINE k   == Own.no
             new == Len(answers) + 1
             m   == Message(new, Own.to, 0)
             by  == IF Own.to = 0 THEN 0 ELSE Here.hdr.id
             to  == IF ToReln(Listed, Own.to) # 0 THEN "original" ELSE "idle"
  <1>2. /\ Now = "create" /\ dir' = [dir EXCEPT ![k] = m]
        /\ Msgn' = [Msgn EXCEPT ![golded] = Append(Listed, k)]
        /\ answers' = Append(answers, by)
        /\ unread' = [v \in Users |-> unread[v] \cup {new}]
        /\ pc' = [pc EXCEPT ![golded] = to]
        /\ UNCHANGED <<lastreads, lastread, msg, op, renumbered>>
    BY DEF Create, Now, Listed, Here, Own
  <1>3. /\ Rises(Listed, Files) /\ Known(Here) /\ k \in DOMAIN dir /\ \A n \in Files : n < k
        /\ Own.to \in {0, Here.no}
    BY <1>1, <1>2 DEF FidoList, FidoLocals, Whole, Waits
  <1>4. /\ DOMAIN dir = 1..MaxMsgno /\ Files \subseteq 1..MaxMsgno /\ MaxMsgno \in Nat
        /\ Listed \in Seq(1..MaxMsgno) /\ Spot \in 0..Len(Listed) /\ Len(Listed) \in Nat
        /\ DOMAIN Listed = 1..Len(Listed)
        /\ Here \in Loaded /\ Len(answers) \in Nat /\ DOMAIN answers = 1..Len(answers)
        /\ answers \in Seq(Nat) /\ Own \in FidoOps /\ \A n \in Files : dir[n].id \in DOMAIN answers
        /\ \A v \in Users : unread[v] \subseteq DOMAIN answers
    BY <1>1, FidoFacts, FidoForms DEF FidoTypes
  <1>5. /\ new \in Nat /\ new # 0 /\ m \in Messages /\ m.id = new /\ m # NoFile
        /\ k \in 1..MaxMsgno /\ k \notin Files
    <2>1. new \in Nat /\ new # 0 /\ Own.to \in Nat
      BY <1>4 DEF FidoOps
    <2>2. k \in 1..MaxMsgno /\ k \notin Files
      BY <1>3, <1>4
    <2> HIDE DEF new
    <2>3. m \in Messages /\ m.id = new /\ m # NoFile
      BY <2>1 DEF Message, Messages, NoFile
    <2> QED BY <2>1, <2>2, <2>3
  <1>6. by \in Nat
    BY <1>4 DEF Loaded, Messages
  <1>7. Rises(Append(Listed, k), Files \cup {k})
    <2>1. k \in Nat
      BY <1>5
    <2> HIDE DEF k
    <2> QED BY <1>3, <2>1, AppendRises
  <1>8. /\ answers' \in Seq(Nat) /\ DOMAIN answers' = 1..new /\ DOMAIN answers \subseteq 1..new
        /\ new \notin DOMAIN answers
    BY <1>2, <1>4, <1>6
  <1> HIDE DEF new, m, by
  <1>9. Files' = Files \cup {k} /\ dir'[k].id = new /\ \A n \in Files : dir'[n] = dir[n]
    <2>1. DOMAIN dir' = DOMAIN dir /\ dir'[k] = m /\ \A n \in DOMAIN dir : n # k => dir'[n] = dir[n]
      BY <1>2, <1>4, <1>5
    <2>2. Files' = Files \cup {k}
      BY <1>4, <1>5, <2>1 DEF Files
    <2> QED BY <1>4, <1>5, <2>1, <2>2
  <1>10. /\ Now' = to /\ Listed' = Append(Listed, k) /\ Spot' = Spot /\ Here' = Here /\ Own' = Own
    BY <1>1, <1>2, FidoForms, FidoFacts DEF Now, Listed, Spot, Here, Own
  <1>11. FidoTypes'
    <2>1. dir' \in [1..MaxMsgno -> Messages]
      BY <1>1, <1>2, <1>5 DEF FidoTypes, TypeOK
    <2>2. lastreads' \in [Users -> 0..MaxMsgno]
      BY <1>1, <1>2 DEF FidoTypes, TypeOK
    <2>3. unread' \in [Users -> SUBSET DOMAIN answers']
      <3>1. \A v \in Users : unread[v] \cup {new} \subseteq 1..new
        <4>1. new \in 1..new
          BY <1>5
        <4> QED BY <1>4, <1>8, <4>1
      <3> QED BY <1>2, <1>8, <3>1
    <2>4. Listed' \in Seq(1..MaxMsgno) /\ Spot' \in 0..Len(Listed')
      BY <1>4, <1>5, <1>10
    <2>5. /\ Msgn' = [Msgn EXCEPT ![golded] = Listed']
          /\ lastread' = [lastread EXCEPT ![golded] = Spot']
          /\ msg' = [msg EXCEPT ![golded] = Here'] /\ op' = [op EXCEPT ![golded] = Own']
      BY <1>1, <1>2, <1>10, FidoForms
    <2>6. pc' = [pc EXCEPT ![golded] = Now'] /\ Now' \in FidoPlaces
      BY <1>2, <1>10 DEF FidoPlaces, Whole, Waits
    <2>7. \A n \in Files' : dir'[n].id \in DOMAIN answers'
      <3>1. new \in 1..new
        BY <1>5
      <3> QED BY <1>4, <1>8, <1>9, <3>1
    <2> QED BY <1>1, <1>4, <1>8, <1>10, <2>1, <2>2, <2>3, <2>4, <2>5, <2>6, <2>7, FidoTyped
  <1>12. FidoList'
    BY <1>7, <1>9, <1>10 DEF FidoList, Gone
  <1>13. FidoLocals'
    <2>1. Known(Here)'
      BY <1>3, <1>9, <1>10 DEF Known
    <2>2. Now' = "original" => Own'.to \in Files'
      <3>1. Now' = "original" => Own.to \in Range(Listed)
        BY <1>4, <1>10, ToRelnFacts
      <3> QED BY <1>3, <1>9, <1>10, <3>1 DEF Rises
    <2> QED BY <1>10, <2>1, <2>2 DEF FidoLocals, Gone
  <1>14. FidoSeen'
    <2>1. \A i \in 1..Spot' : dir'[Listed'[i]].id \notin unread'[golded]
      <3> SUFFICES ASSUME NEW i \in 1..Spot PROVE dir'[Listed'[i]].id \notin unread'[golded]
        BY <1>10
      <3>1. i \in 1..Len(Listed)
        BY <1>4
      <3>2. Listed[i] \in Files /\ Listed'[i] = Listed[i]
        <4>1. Listed[i] \in Files
          BY <1>3, <1>4, <3>1 DEF Rises, Range
        <4>2. Append(Listed, k)[i] = Listed[i]
          BY <1>4, <3>1
        <4> QED BY <1>10, <4>1, <4>2
      <3>3. dir[Listed[i]].id \notin unread[golded]
        BY <1>1, <1>2 DEF FidoSeen, Waits
      <3>4. dir[Listed[i]].id # new
        BY <1>4, <1>8, <3>2
      <3>5. golded \in Users
        BY <1>1, FidoFacts
      <3> QED BY <1>2, <1>9, <3>2, <3>3, <3>4, <3>5
    <2>2. Scanned = Files /\ Scanned' = Files \cup {k}
      BY <1>2, <1>3, <1>7, <1>10 DEF Scanned, Rises
    <2>3. ASSUME ~renumbered, NEW v \in Users, v # golded PROVE NoneHidden(v)' /\ LowPointer(v)'
      <3>1. NoneHidden(v) /\ LowPointer(v) /\ lastreads' = lastreads /\ lastreads[v] \in Nat
        BY <1>1, <1>2, <2>3, FidoForms DEF FidoSeen
      <3>2. LowPointer(v)'
        BY <2>2, <3>1 DEF LowPointer
      <3>3. ~ (k <= lastreads[v])
        <4>1. lastreads[v] = 0 \/ \E n \in Files : lastreads[v] <= n
          BY <2>2, <3>1 DEF LowPointer
        <4>2. k \in Nat /\ k # 0
          BY <1>5
        <4>3. \A n \in Files : n \in Nat /\ n < k
          BY <1>3, <1>4
        <4> HIDE DEF k, Files
        <4> QED BY <3>1, <4>1, <4>2, <4>3
      <3>4. ASSUME NEW n \in Files, n <= lastreads[v] PROVE dir'[n].id \notin unread'[v]
        <4>1. dir[n].id \notin unread[v]
          BY <3>1, <3>4 DEF NoneHidden
        <4>2. dir[n].id # new
          BY <1>4, <1>8
        <4> QED BY <1>2, <1>9, <4>1, <4>2
      <3>5. NoneHidden(v)'
        BY <1>9, <3>1, <3>3, <3>4 DEF NoneHidden
      <3> QED BY <3>2, <3>5
    <2> QED BY <1>2, <1>10, <2>1, <2>3 DEF FidoSeen
  <1>15. FileAdded
    <2>1. Len(answers') = new
      BY <1>5, <1>8
    <2> QED BY <1>3, <1>5, <1>9, <2>1 DEF FileAdded, SameIds, new
  <1> QED BY <1>11, <1>12, <1>13, <1>14, <1>15 DEF FidoInv

LEMMA FidoLoadOriginal == ASSUME FidoInv, LoadOriginal(golded) PROVE FidoInv'
  <1>1. FidoTypes /\ FidoList /\ FidoLocals /\ FidoSeen
    BY DEF FidoInv
  <1> DEFINE m == [no |-> Own.to, hdr |-> dir[Own.to]]
  <1>2. Now = "original" /\ Own.to \in Files
    BY <1>1 DEF LoadOriginal, Now, FidoLocals
  <1>3. /\ op' = [op EXCEPT ![golded].up = m] /\ pc' = [pc EXCEPT ![golded] = "link"]
        /\ UNCHANGED <<dir, lastreads, Msgn, lastread, msg, answers, unread, renumbered>>
    BY <1>2 DEF LoadOriginal, history, Own
  <1>4. m \in Loaded
    BY <1>1, <1>2, FidoFacts DEF Loaded
  <1>5. /\ Now' = "link" /\ Listed' = Listed /\ Spot' = Spot /\ Here' = Here
        /\ Own' = [Own EXCEPT !.up = m]
    BY <1>1, <1>3, FidoForms, FidoFacts DEF Now, Listed, Spot, Here, Own
  <1>6. Own' \in FidoOps /\ Own'.up = m
    <2> HIDE DEF m
    <2> QED BY <1>1, <1>4, <1>5, FidoForms DEF FidoOps
  <1>7. Files' = Files
    BY <1>3 DEF Files
  <1>8. FidoTypes'
    <2>1. op' = [op EXCEPT ![golded] = Own']
      BY <1>1, <1>3, <1>5, FidoForms DEF Own
    <2>2. /\ dir' \in [1..MaxMsgno -> Messages] /\ lastreads' \in [Users -> 0..MaxMsgno]
          /\ answers' \in Seq(Nat) /\ unread' \in [Users -> SUBSET DOMAIN answers']
      BY <1>1, <1>3 DEF FidoTypes, TypeOK
    <2>3. /\ Msgn' = [Msgn EXCEPT ![golded] = Listed'] /\ Listed' \in Seq(1..MaxMsgno)
          /\ lastread' = [lastread EXCEPT ![golded] = Spot'] /\ Spot' \in 0..Len(Listed')
          /\ msg' = [msg EXCEPT ![golded] = Here'] /\ Here' \in Loaded
      BY <1>1, <1>3, <1>5, FidoForms, FidoFacts
    <2>4. pc' = [pc EXCEPT ![golded] = Now'] /\ Now' \in FidoPlaces
      BY <1>3, <1>5 DEF FidoPlaces, Whole, Waits
    <2>5. \A n \in Files' : dir'[n].id \in DOMAIN answers'
      BY <1>1, <1>3, <1>7 DEF FidoTypes
    <2> QED BY <1>1, <1>6, <2>1, <2>2, <2>3, <2>4, <2>5, FidoTyped
  <1>9. FidoList'
    BY <1>1, <1>2, <1>5, <1>7 DEF FidoList, Whole, Waits, Gone
  <1>10. FidoLocals'
    BY <1>1, <1>2, <1>3, <1>5, <1>6, <1>7 DEF FidoLocals, Known, Whole, Waits, Gone
  <1>11. FidoSeen'
    BY <1>2, <1>3, <1>5, <1>7, SeenKept DEF Waits
  <1> QED BY <1>8, <1>9, <1>10, <1>11 DEF FidoInv

\* Headers are saved where they were read: the original of a reply, and the
\* header of the message shown.
LEMMA FidoSaves ==
    ASSUME FidoInv, LinkOriginal(golded) \/ SaveHdr(golded)
    PROVE  FidoInv' /\ FilesStay
  <1>1. FidoTypes /\ FidoList /\ FidoLocals /\ FidoSeen
    BY DEF FidoInv
  <1>2. PICK n \in Nat, h \in Messages :
        /\ Now \in {"link", "idle"} /\ dir' = [dir EXCEPT ![n] = h]
        /\ n # 0 => n \in Files /\ h.id = dir[n].id
        /\ pc' = [pc EXCEPT ![golded] = "idle"]
        /\ UNCHANGED <<lastreads, Msgn, lastread, msg, op, answers, unread, renumbered>>
    <2>1. CASE LinkOriginal(golded)
      <3> DEFINE h == [Own.up.hdr EXCEPT !.first = Own.no]
      <3>1. /\ Now = "link" /\ dir' = [dir EXCEPT ![Own.up.no] = h]
            /\ pc' = [pc EXCEPT ![golded] = "idle"]
            /\ UNCHANGED <<lastreads, Msgn, lastread, msg, op, answers, unread, renumbered>>
        BY <2>1 DEF LinkOriginal, history, Now, Own
      <3>2. Own.up \in Loaded /\ Own.no \in Nat
        BY <1>1, FidoForms DEF FidoOps
      <3>3. h \in Messages /\ h.id = Own.up.hdr.id /\ Own.up.no \in Nat
        BY <3>2 DEF Loaded, Messages
      <3>4. Own.up.no # 0 => Own.up.no \in Files /\ Own.up.hdr.id = dir[Own.up.no].id
        BY <1>1, <3>1 DEF FidoLocals, Known
      <3> HIDE DEF h
      <3> QED BY <3>1, <3>3, <3>4
    <2>2. CASE SaveHdr(golded)
      <3>1. /\ Now = "idle" /\ dir' = [dir EXCEPT ![Here.no] = Here.hdr] /\ pc' = pc
            /\ UNCHANGED <<lastreads, Msgn, lastread, msg, op, answers, unread, renumbered>>
        BY <2>2 DEF SaveHdr, history, Now, Here
      <3>2. Here.hdr \in Messages /\ Here.no \in Nat
        BY <1>1, FidoFacts DEF Loaded
      <3>3. Here.no # 0 => Here.no \in Files /\ Here.hdr.id = dir[Here.no].id
        BY <1>1, <3>1 DEF FidoLocals, Known, Whole, Waits
      <3>4. pc' = [pc EXCEPT ![golded] = "idle"]
        BY <1>1, <3>1 DEF FidoTypes, Now
      <3> QED BY <3>1, <3>2, <3>3, <3>4
    <2> QED BY <2>1, <2>2
  <1>3. dir \in [1..MaxMsgno -> Messages] /\ Files \subseteq 1..MaxMsgno
    BY <1>1, FidoFacts DEF FidoTypes, TypeOK
  <1>4. dir' \in [1..MaxMsgno -> Messages]
    BY <1>2, <1>3
  <1>5. Files' = Files /\ \A j \in Files : dir'[j].id = dir[j].id
    <2>1. ASSUME NEW j \in 1..MaxMsgno
          PROVE  dir'[j] = dir[j] \/ (j \in Files /\ dir'[j].id = dir[j].id)
      <3>1. j # 0
        BY <1>1, FidoFacts
      <3> QED BY <1>2, <1>3, <3>1
    <2> QED BY <1>1, <1>4, <2>1, SameFiles
  <1>6. /\ Now' = "idle" /\ Listed' = Listed /\ Spot' = Spot /\ Here' = Here /\ Own' = Own
    BY <1>1, <1>2, FidoForms, FidoFacts DEF Now, Listed, Spot, Here, Own
  <1>7. FidoTypes'
    <2>1. /\ lastreads' \in [Users -> 0..MaxMsgno]
          /\ answers' \in Seq(Nat) /\ unread' \in [Users -> SUBSET DOMAIN answers']
      BY <1>1, <1>2 DEF FidoTypes, TypeOK
    <2>2. /\ Msgn' = [Msgn EXCEPT ![golded] = Listed'] /\ Listed' \in Seq(1..MaxMsgno)
          /\ lastread' = [lastread EXCEPT ![golded] = Spot'] /\ Spot' \in 0..Len(Listed')
          /\ msg' = [msg EXCEPT ![golded] = Here'] /\ Here' \in Loaded
          /\ op' = [op EXCEPT ![golded] = Own'] /\ Own' \in FidoOps
      BY <1>1, <1>2, <1>6, FidoForms, FidoFacts
    <2>3. pc' = [pc EXCEPT ![golded] = Now'] /\ Now' \in FidoPlaces
      BY <1>2, <1>6 DEF FidoPlaces, Whole, Waits
    <2>4. \A j \in Files' : dir'[j].id \in DOMAIN answers'
      BY <1>1, <1>2, <1>5 DEF FidoTypes
    <2> QED BY <1>1, <1>4, <2>1, <2>2, <2>3, <2>4, FidoTyped
  <1>8. FidoList'
    BY <1>1, <1>2, <1>5, <1>6 DEF FidoList, Whole, Waits, Gone
  <1>9. FidoLocals'
    <2>1. Known(Here)'
      BY <1>1, <1>2, <1>5, <1>6 DEF FidoLocals, Known, Whole, Waits
    <2> QED BY <1>6, <2>1 DEF FidoLocals, Gone
  <1>10. FidoSeen'
    BY <1>2, <1>5, <1>6, SeenKept DEF Waits
  <1>11. FilesStay
    BY <1>2, <1>5 DEF FilesStay, SameIds
  <1> QED BY <1>7, <1>8, <1>9, <1>10, <1>11 DEF FidoInv

\* Deleting: the position moves, and the headers linked to the message are
\* loaded and mended.
LEMMA FidoDelete == ASSUME FidoInv, Delete(golded) PROVE FidoInv'
  <1>1. FidoTypes /\ FidoList /\ FidoLocals /\ FidoSeen
    BY DEF FidoInv
  <1> DEFINE mended == Splice(golded)
             lread  == CvtReln(Listed, Spot')
  <1>2. PICK forward \in BOOLEAN :
        lastread' = [lastread EXCEPT ![golded] =
            IF CvtReln(Msgn[golded], @) = msg[golded].no THEN Neighbour(golded, forward) ELSE @]
    BY DEF Delete
  <1>3. /\ Now = "idle" /\ Here.no # 0
        /\ op' = [op EXCEPT ![golded].lread = lread,
                            ![golded].down = mended.down, ![golded].up = mended.up]
        /\ pc' = [pc EXCEPT ![golded] = "splice"]
        /\ UNCHANGED <<dir, lastreads, Msgn, msg, answers, unread, renumbered>>
    BY DEF Delete, history, Now, Listed, Here, Spot
  <1>4. /\ Listed \in Seq(1..MaxMsgno) /\ Spot \in 0..Len(Listed) /\ Len(Listed) \in Nat
        /\ DOMAIN Listed = 1..Len(Listed) /\ \A i \in 1..Len(Listed) : Listed[i] \in 1..MaxMsgno
        /\ MaxMsgno \in Nat /\ Here \in Loaded
    BY <1>1, FidoFacts
  <1>5. Spot' \in 0..Len(Listed) /\ lastread' = [lastread EXCEPT ![golded] = Spot']
    <2>1. CvtReln(Listed, Spot) = Here.no => Neighbour(golded, forward) \in 0..Len(Listed)
      <3> DEFINE l == Spot  n == Len(Listed)
      <3>1. Neighbour(golded, forward) =
              CASE forward /\ l < n         -> l + 1
                [] forward /\ l = n         -> l - 1
                [] ~forward /\ l > 1        -> l - 1
                [] ~forward /\ l = 1 /\ n > 1 -> 2
                [] OTHER                    -> 0
        BY DEF Neighbour, Listed, Spot
      <3>2. l \in 0..n /\ n \in Nat
        BY <1>4
      <3>3. CvtReln(Listed, Spot) = Here.no => l # 0
        BY <1>3, <1>4 DEF CvtReln
      <3> HIDE DEF l, n
      <3>4. l # 0 => Neighbour(golded, forward) \in 0..n
        BY <3>1, <3>2
      <3> QED BY <3>3, <3>4 DEF n
    <2>2. Spot' = IF CvtReln(Listed, Spot) = Here.no THEN Neighbour(golded, forward) ELSE Spot
      BY <1>1, <1>2, FidoForms DEF Spot, Listed, Here
    <2>3. Spot' \in 0..Len(Listed)
      BY <1>4, <2>1, <2>2
    <2>4. lastread' = [lastread EXCEPT ![golded] = Spot']
      BY <1>1, <1>2, FidoForms DEF Spot
    <2> QED BY <2>3, <2>4
  <1>6. lread \in 0..MaxMsgno
    BY <1>4, <1>5 DEF CvtReln
  <1>7. NoMsg \in Loaded /\ NoMsg.no = 0
    BY DEF NoMsg, Loaded, NoFile, Message, Messages
  <1>8. ASSUME NEW n \in Nat
        PROVE  Linked(golded, n) \in Loaded /\ Known(Linked(golded, n))
    <2>1. n \in Files => dir[n] \in Messages
      BY <1>1, FidoFacts
    <2>2. CASE n \in Files
      <3>1. [no |-> n, hdr |-> dir[n]] \in Loaded
        BY <2>1, <2>2 DEF Loaded
      <3> QED BY <1>7, <2>2, <3>1 DEF Linked, Known
    <2>3. CASE n \notin Files
      BY <1>7, <2>3 DEF Linked, Known
    <2> QED BY <2>2, <2>3
  <1>9. mended.down \in Loaded /\ mended.up \in Loaded /\ Known(mended.down) /\ Known(mended.up)
    <2> DEFINE listed(n) == IF ToReln(Listed, n) # 0 THEN n ELSE 0
               down   == Linked(golded, Here.hdr.to)
               up     == Linked(golded, Here.hdr.first)
               backed == down.no # 0 /\ down.hdr.first = Here.no
               first  == listed(Here.hdr.first)
               to     == IF backed THEN down.no ELSE 0
    <2>1. /\ mended.down = IF backed THEN [down EXCEPT !.hdr.first = first] ELSE NoMsg
          /\ mended.up = IF up.no # 0 /\ up.hdr.to = Here.no
                         THEN [up EXCEPT !.hdr.to = to] ELSE NoMsg
      BY DEF Splice, Here, Listed
    <2>2. Here.hdr.to \in Nat /\ Here.hdr.first \in Nat /\ Here.no \in Nat
      BY <1>4 DEF Loaded, Messages
    <2>3. down \in Loaded /\ Known(down) /\ up \in Loaded /\ Known(up)
      BY <1>8, <2>2
    <2> HIDE DEF down, up
    <2>4. first \in Nat /\ to \in Nat
      BY <2>2, <2>3 DEF Loaded
    <2> HIDE DEF backed, first, to, mended
    <2>5. [down EXCEPT !.hdr.first = first] \in Loaded /\ Known([down EXCEPT !.hdr.first = first])
      BY <2>3, <2>4 DEF Loaded, Messages, Known
    <2>6. [up EXCEPT !.hdr.to = to] \in Loaded /\ Known([up EXCEPT !.hdr.to = to])
      BY <2>3, <2>4 DEF Loaded, Messages, Known
    <2>7. Known(NoMsg)
      BY <1>7 DEF Known
    <2> QED BY <1>7, <2>1, <2>5, <2>6, <2>7
  <1> HIDE DEF mended, lread
  <1>10. /\ Now' = "splice" /\ Listed' = Listed /\ Here' = Here
         /\ Own' = [Own EXCEPT !.lread = lread, !.down = mended.down, !.up = mended.up]
    BY <1>1, <1>3, FidoForms, FidoFacts DEF Now, Listed, Here, Own
  <1>11. Own' \in FidoOps /\ Own'.down = mended.down /\ Own'.up = mended.up
    BY <1>1, <1>6, <1>9, <1>10, FidoForms DEF FidoOps
  <1>12. Files' = Files
    BY <1>3 DEF Files
  <1>13. FidoTypes'
    <2>1. op' = [op EXCEPT ![golded] = Own']
      BY <1>1, <1>3, <1>10, FidoForms DEF Own
    <2>2. /\ dir' \in [1..MaxMsgno -> Messages] /\ lastreads' \in [Users -> 0..MaxMsgno]
          /\ answers' \in Seq(Nat) /\ unread' \in [Users -> SUBSET DOMAIN answers']
      BY <1>1, <1>3 DEF FidoTypes, TypeOK
    <2>3. /\ Msgn' = [Msgn EXCEPT ![golded] = Listed'] /\ Listed' \in Seq(1..MaxMsgno)
          /\ Spot' \in 0..Len(Listed')
          /\ msg' = [msg EXCEPT ![golded] = Here'] /\ Here' \in Loaded
      BY <1>1, <1>3, <1>4, <1>5, <1>10, FidoForms
    <2>4. pc' = [pc EXCEPT ![golded] = Now'] /\ Now' \in FidoPlaces
      BY <1>3, <1>10 DEF FidoPlaces, Whole
    <2>5. \A m \in Files' : dir'[m].id \in DOMAIN answers'
      BY <1>1, <1>3, <1>12 DEF FidoTypes
    <2> QED BY <1>1, <1>5, <1>11, <2>1, <2>2, <2>3, <2>4, <2>5, FidoTyped
  <1>14. FidoList'
    BY <1>1, <1>3, <1>10, <1>12 DEF FidoList, Whole, Waits, Gone
  <1>15. FidoLocals'
    <2>1. Known(Here)' /\ Here'.no # 0
      BY <1>1, <1>3, <1>10, <1>12 DEF FidoLocals, Known, Whole, Waits
    <2>2. Known(Own.up)' /\ Known(Own.down)'
      BY <1>3, <1>9, <1>11, <1>12 DEF Known
    <2> QED BY <1>10, <2>1, <2>2 DEF FidoLocals, Gone
  <1>16. FidoSeen'
    <2>1. Scanned' = Scanned
      BY <1>3, <1>10 DEF Scanned
    <2>2. ~renumbered' => \A v \in Users : v # golded => NoneHidden(v)' /\ LowPointer(v)'
      BY <1>1, <1>3, <1>12, <2>1, OthersKept
    <2> QED BY <1>10, <2>2 DEF FidoSeen, Waits
  <1> QED BY <1>13, <1>14, <1>15, <1>16 DEF FidoInv

LEMMA FidoSplice == ASSUME FidoInv, SaveSplice(golded) PROVE FidoInv' /\ FilesStay
  <1>1. FidoTypes /\ FidoList /\ FidoLocals /\ FidoSeen
    BY DEF FidoInv
  <1>2. /\ Now = "splice"
        /\ dir' = [n \in DOMAIN dir |->
                    IF n = Own.up.no THEN Own.up.hdr
                    ELSE IF n = Own.down.no THEN Own.down.hdr ELSE dir[n]]
        /\ pc' = [pc EXCEPT ![golded] = "remove"]
        /\ UNCHANGED <<lastreads, Msgn, lastread, msg, op, answers, unread, renumbered>>
    BY DEF SaveSplice, history, Now, Own
  <1>3. /\ Rises(Listed, Files) /\ Known(Here) /\ Here.no # 0 /\ Known(Own.up) /\ Known(Own.down)
    BY <1>1, <1>2 DEF FidoList, FidoLocals, Whole
  <1>4. /\ dir \in [1..MaxMsgno -> Messages] /\ Files \subseteq 1..MaxMsgno /\ 0 \notin 1..MaxMsgno
        /\ Own.up \in Loaded /\ Own.down \in Loaded
    BY <1>1, FidoFacts, FidoForms DEF FidoTypes, TypeOK, FidoOps
  <1>5. Own.up.hdr \in Messages /\ Own.down.hdr \in Messages
    BY <1>4 DEF Loaded
  <1>6. ASSUME NEW n \in 1..MaxMsgno
        PROVE  dir'[n] \in Messages /\ (dir'[n] = dir[n] \/ (n \in Files /\ dir'[n].id = dir[n].id))
    <2>1. n \in DOMAIN dir /\ n # 0 /\ dir[n] \in Messages
      BY <1>4
    <2>2. CASE n = Own.up.no
      <3>1. dir'[n] = Own.up.hdr
        BY <1>2, <2>1, <2>2
      <3> QED BY <1>3, <1>5, <2>1, <2>2, <3>1 DEF Known
    <2>3. CASE n # Own.up.no /\ n = Own.down.no
      <3>1. dir'[n] = Own.down.hdr
        BY <1>2, <2>1, <2>3
      <3> QED BY <1>3, <1>5, <2>1, <2>3, <3>1 DEF Known
    <2>4. CASE n # Own.up.no /\ n # Own.down.no
      <3>1. dir'[n] = dir[n]
        BY <1>2, <2>1, <2>4
      <3> QED BY <2>1, <3>1
    <2> QED BY <2>2, <2>3, <2>4
  <1>7. dir' \in [1..MaxMsgno -> Messages]
    <2>1. DOMAIN dir' = 1..MaxMsgno /\ dir' = [n \in DOMAIN dir' |-> dir'[n]]
      BY <1>2, <1>4
    <2> QED BY <1>6, <2>1
  <1>8. Files' = Files /\ \A j \in Files : dir'[j].id = dir[j].id
    BY <1>1, <1>6, <1>7, SameFiles
  <1>9. /\ Now' = "remove" /\ Listed' = Listed /\ Spot' = Spot /\ Here' = Here /\ Own' = Own
    BY <1>1, <1>2, FidoForms, FidoFacts DEF Now, Listed, Spot, Here, Own
  <1>10. FidoTypes'
    <2>1. /\ lastreads' \in [Users -> 0..MaxMsgno]
          /\ answers' \in Seq(Nat) /\ unread' \in [Users -> SUBSET DOMAIN answers']
      BY <1>1, <1>2 DEF FidoTypes, TypeOK
    <2>2. /\ Msgn' = [Msgn EXCEPT ![golded] = Listed'] /\ Listed' \in Seq(1..MaxMsgno)
          /\ lastread' = [lastread EXCEPT ![golded] = Spot'] /\ Spot' \in 0..Len(Listed')
          /\ msg' = [msg EXCEPT ![golded] = Here'] /\ Here' \in Loaded
          /\ op' = [op EXCEPT ![golded] = Own'] /\ Own' \in FidoOps
      BY <1>1, <1>2, <1>9, FidoForms, FidoFacts
    <2>3. pc' = [pc EXCEPT ![golded] = Now'] /\ Now' \in FidoPlaces
      BY <1>2, <1>9 DEF FidoPlaces, Whole
    <2>4. \A j \in Files' : dir'[j].id \in DOMAIN answers'
      BY <1>1, <1>2, <1>8 DEF FidoTypes
    <2> QED BY <1>1, <1>7, <2>1, <2>2, <2>3, <2>4, FidoTyped
  <1>11. FidoList'
    BY <1>3, <1>8, <1>9 DEF FidoList, Gone
  <1>12. FidoLocals'
    <2>1. Known(Here)'
      BY <1>3, <1>8, <1>9 DEF Known
    <2> QED BY <1>3, <1>9, <2>1 DEF FidoLocals, Gone
  <1>13. FidoSeen'
    BY <1>2, <1>8, <1>9, SeenKept DEF Waits
  <1>14. FilesStay
    BY <1>2, <1>8 DEF FilesStay, SameIds
  <1> QED BY <1>10, <1>11, <1>12, <1>13, <1>14 DEF FidoInv

LEMMA FidoRemove == ASSUME FidoInv, RemoveFile(golded) PROVE FidoInv' /\ FileRemoved
  <1>1. FidoTypes /\ FidoList /\ FidoLocals /\ FidoSeen
    BY DEF FidoInv
  <1>2. /\ Now = "remove" /\ dir' = [dir EXCEPT ![Here.no] = NoFile]
        /\ pc' = [pc EXCEPT ![golded] = "lastreads"]
        /\ UNCHANGED <<lastreads, Msgn, lastread, msg, op, answers, unread, renumbered>>
    BY DEF RemoveFile, history, Now, Here
  <1>3. Rises(Listed, Files) /\ Here.no \in Files /\ Here.no # 0
    BY <1>1, <1>2 DEF FidoList, FidoLocals, Known, Whole
  <1>4. dir \in [1..MaxMsgno -> Messages] /\ Files \subseteq 1..MaxMsgno /\ NoFile \in Messages
    BY <1>1, FidoFacts DEF FidoTypes, TypeOK, NoFile, Message, Messages
  <1>5. Files' = Files \ {Here.no} /\ \A n \in Files' : dir'[n] = dir[n]
    BY <1>2, <1>3, <1>4 DEF Files
  <1>6. /\ Now' = "lastreads" /\ Listed' = Listed /\ Spot' = Spot /\ Here' = Here /\ Own' = Own
    BY <1>1, <1>2, FidoForms, FidoFacts DEF Now, Listed, Spot, Here, Own
  <1>7. FidoTypes'
    <2>1. /\ dir' \in [1..MaxMsgno -> Messages] /\ lastreads' \in [Users -> 0..MaxMsgno]
          /\ answers' \in Seq(Nat) /\ unread' \in [Users -> SUBSET DOMAIN answers']
      BY <1>1, <1>2, <1>4 DEF FidoTypes, TypeOK
    <2>2. /\ Msgn' = [Msgn EXCEPT ![golded] = Listed'] /\ Listed' \in Seq(1..MaxMsgno)
          /\ lastread' = [lastread EXCEPT ![golded] = Spot'] /\ Spot' \in 0..Len(Listed')
          /\ msg' = [msg EXCEPT ![golded] = Here'] /\ Here' \in Loaded
          /\ op' = [op EXCEPT ![golded] = Own'] /\ Own' \in FidoOps
      BY <1>1, <1>2, <1>6, FidoForms, FidoFacts
    <2>3. pc' = [pc EXCEPT ![golded] = Now'] /\ Now' \in FidoPlaces
      BY <1>2, <1>6 DEF FidoPlaces, Gone
    <2>4. \A j \in Files' : dir'[j].id \in DOMAIN answers'
      BY <1>1, <1>2, <1>5 DEF FidoTypes
    <2> QED BY <1>1, <2>1, <2>2, <2>3, <2>4, FidoTyped
  <1>8. FidoList'
    <2>1. Files' \cup {Here.no} = Files
      BY <1>3, <1>5
    <2>2. Here.no \notin Files'
      BY <1>5
    <2> HIDE DEF Files
    <2> QED BY <1>3, <1>6, <2>1, <2>2 DEF FidoList, Whole, Waits
  <1>9. FidoLocals'
    BY <1>3, <1>6 DEF FidoLocals, Whole, Waits
  <1>10. FidoSeen'
    <2>1. Scanned' = Scanned
      BY <1>2, <1>6 DEF Scanned
    <2>2. Files' \subseteq Files
      BY <1>5
    <2>3. ~renumbered' => \A v \in Users : v # golded => NoneHidden(v)' /\ LowPointer(v)'
      BY <1>1, <1>2, <1>5, <2>1, <2>2, OthersKept
    <2> QED BY <1>6, <2>3 DEF FidoSeen, Waits
  <1>11. FileRemoved
    BY <1>2, <1>3, <1>5 DEF FileRemoved, SameIds
  <1> QED BY <1>7, <1>8, <1>9, <1>10, <1>11 DEF FidoInv

LEMMA FidoReadLastreads == ASSUME FidoInv, ReadLastreads(golded) PROVE FidoInv'
  <1>1. FidoTypes /\ FidoList /\ FidoLocals /\ FidoSeen
    BY DEF FidoInv
  <1>2. /\ Now = "lastreads" /\ op' = [op EXCEPT ![golded].lr = lastreads]
        /\ pc' = [pc EXCEPT ![golded] = "adjust"]
        /\ UNCHANGED <<dir, lastreads, Msgn, lastread, msg, answers, unread, renumbered>>
    BY DEF ReadLastreads, history, Now
  <1>3. /\ Now' = "adjust" /\ Listed' = Listed /\ Spot' = Spot /\ Here' = Here
        /\ Own' = [Own EXCEPT !.lr = lastreads]
    BY <1>1, <1>2, FidoForms, FidoFacts DEF Now, Listed, Spot, Here, Own
  <1>4. Own' \in FidoOps /\ Own'.lr = lastreads
    BY <1>1, <1>3, FidoForms DEF FidoOps
  <1>5. Files' = Files
    BY <1>2 DEF Files
  <1>6. FidoTypes'
    <2>1. op' = [op EXCEPT ![golded] = Own']
      BY <1>1, <1>2, <1>3, FidoForms DEF Own
    <2>2. /\ dir' \in [1..MaxMsgno -> Messages] /\ lastreads' \in [Users -> 0..MaxMsgno]
          /\ answers' \in Seq(Nat) /\ unread' \in [Users -> SUBSET DOMAIN answers']
      BY <1>1, <1>2 DEF FidoTypes, TypeOK
    <2>3. /\ Msgn' = [Msgn EXCEPT ![golded] = Listed'] /\ Listed' \in Seq(1..MaxMsgno)
          /\ lastread' = [lastread EXCEPT ![golded] = Spot'] /\ Spot' \in 0..Len(Listed')
          /\ msg' = [msg EXCEPT ![golded] = Here'] /\ Here' \in Loaded
      BY <1>1, <1>2, <1>3, FidoForms, FidoFacts
    <2>4. pc' = [pc EXCEPT ![golded] = Now'] /\ Now' \in FidoPlaces
      BY <1>2, <1>3 DEF FidoPlaces, Gone
    <2>5. \A m \in Files' : dir'[m].id \in DOMAIN answers'
      BY <1>1, <1>2, <1>5 DEF FidoTypes
    <2> QED BY <1>1, <1>4, <2>1, <2>2, <2>3, <2>4, <2>5, FidoTyped
  <1>7. FidoList'
    BY <1>1, <1>2, <1>3, <1>5 DEF FidoList, Whole, Waits, Gone
  <1>8. FidoLocals'
    BY <1>1, <1>2, <1>3, <1>4 DEF FidoLocals, Whole, Waits, Gone
  <1>9. FidoSeen'
    BY <1>2, <1>3, <1>5, SeenKept DEF Waits
  <1> QED BY <1>6, <1>7, <1>8, <1>9 DEF FidoInv

LEMMA LastInOrder ==
    ASSUME NEW n \in Nat, NEW S, S \subseteq 1..n, S # {}
    PROVE  Last(InOrder(S)) \in S
  <1>1. Rises(InOrder(S), S)
    BY InOrderRises
  <1> QED BY <1>1, RisesLast DEF Last

\* A pointer is only set back, and never left above all messages there are.
LEMMA AdjustedFacts ==
    ASSUME FidoTypes, NEW lr \in 0..MaxMsgno,
           NEW F, F = {n \in Range(Listed) : n # Here.no}
    PROVE  /\ Adjusted(golded, lr) \in 0..MaxMsgno /\ Adjusted(golded, lr) <= lr
           /\ Adjusted(golded, lr) = 0 \/ \E n \in F : Adjusted(golded, lr) <= n
  <1> DEFINE L     == {n \in F : n < lr}
             top   == IF F = {} THEN 0 ELSE Last(InOrder(F))
             below == IF L = {} THEN 0 ELSE Last(InOrder(L))
             new   == IF lr = Here.no THEN below ELSE lr
  <1>1. Adjusted(golded, lr) = IF new > top THEN top ELSE new
    BY DEF Adjusted, Listed, Here
  <1>2. MaxMsgno \in Nat /\ F \subseteq 1..MaxMsgno /\ L \subseteq 1..MaxMsgno
    <2>1. MaxMsgno \in Nat /\ Listed \in Seq(1..MaxMsgno)
      BY FidoFacts
    <2>2. Range(Listed) \subseteq 1..MaxMsgno
      BY <2>1 DEF Range
    <2> QED BY <2>1, <2>2
  <1>3. top \in 0..MaxMsgno /\ (F # {} => top \in F) /\ (F = {} => top = 0)
    <2>1. F # {} => Last(InOrder(F)) \in F
      BY <1>2, LastInOrder
    <2> QED BY <1>2, <2>1
  <1>4. below \in 0..MaxMsgno /\ below <= lr
    <2>1. L # {} => Last(InOrder(L)) \in L
      <3> HIDE DEF L
      <3> QED BY <1>2, LastInOrder
    <2>2. CASE L = {}
      BY <1>2, <2>2
    <2>3. CASE L # {}
      <3>1. below \in L
        BY <2>1, <2>3
      <3>2. below < lr /\ below \in 1..MaxMsgno
        BY <1>2, <3>1
      <3> HIDE DEF below, L
      <3> QED BY <1>2, <3>2
    <2> QED BY <2>2, <2>3
  <1> HIDE DEF below, top
  <1>5. new \in 0..MaxMsgno /\ new <= lr
    BY <1>4
  <1> HIDE DEF new
  <1>6. Adjusted(golded, lr) \in 0..MaxMsgno /\ Adjusted(golded, lr) <= lr
        /\ Adjusted(golded, lr) <= top
    <2>1. new \in Nat /\ top \in Nat /\ lr \in Nat /\ MaxMsgno \in Nat
      BY <1>2, <1>3, <1>5
    <2>2. top \in 0..MaxMsgno /\ new \in 0..MaxMsgno
      BY <1>3, <1>5
    <2> QED BY <1>1, <1>5, <2>1, <2>2
  <1>7. Adjusted(golded, lr) = 0 \/ \E n \in F : Adjusted(golded, lr) <= n
    <2>1. CASE F = {}
      BY <1>2, <1>3, <1>6, <2>1
    <2>2. CASE F # {}
      BY <1>3, <1>6, <2>2
    <2> QED BY <2>1, <2>2
  <1> QED BY <1>6, <1>7

LEMMA FidoAdjust == ASSUME FidoInv, AdjustLastreads(golded) PROVE FidoInv'
  <1>1. FidoTypes /\ FidoList /\ FidoLocals /\ FidoSeen
    BY DEF FidoInv
  <1> DEFINE short == Without(Listed, Here.no)
             r     == ToReln(short, Own.lread)
  <1>2. /\ Now = "adjust"
        /\ lastreads' = IF \E v \in Users : Adjusted(golded, Own.lr[v]) # Own.lr[v]
                        THEN [v \in Users |-> Adjusted(golded, Own.lr[v])] ELSE lastreads
        /\ Msgn' = [Msgn EXCEPT ![golded] = short]
        /\ lastread' = [lastread EXCEPT ![golded] = ToReln(Msgn'[golded], Own.lread)]
        /\ msg' = [msg EXCEPT ![golded] = NoMsg]
        /\ unread' = [unread EXCEPT ![golded] =
                @ \ {dir[Msgn'[golded][i]].id : i \in 1..lastread'[golded]}]
        /\ op' = [op EXCEPT ![golded] = NoOp]
        /\ pc' = [pc EXCEPT ![golded] = "idle"]
        /\ UNCHANGED <<dir, answers, renumbered>>
    BY DEF AdjustLastreads, Pass, Now, Listed, Here, Own
  <1>3. /\ Here.no \notin Files /\ Rises(Listed, Files \cup {Here.no}) /\ Own.lr = lastreads
    BY <1>1, <1>2 DEF FidoList, FidoLocals, Gone
  <1>4. /\ Listed \in Seq(1..MaxMsgno) /\ MaxMsgno \in Nat /\ Files \subseteq 1..MaxMsgno
        /\ golded \in Users
    BY <1>1, FidoFacts
  <1>5. Rises(short, Files)
    <2>1. Rises(Chosen(Listed, {i \in DOMAIN Listed : Listed[i] # Here.no}),
                (Files \cup {Here.no}) \ {Here.no})
      BY <1>3, WithoutRises
    <2>2. (Files \cup {Here.no}) \ {Here.no} = Files
      BY <1>3
    <2> QED BY <2>1, <2>2 DEF Without
  <1>6. short \in Seq(1..MaxMsgno) /\ r \in 0..Len(short)
    <2>1. short \in Seq(1..MaxMsgno)
      BY <1>4, <1>5, RisesIn
    <2> HIDE DEF short
    <2> QED BY <2>1, ToRelnFacts
  <1> HIDE DEF short, r
  <1>7. /\ Now' = "idle" /\ Listed' = short /\ Here' = NoMsg /\ Own' = NoOp
        /\ Msgn'[golded] = short
    BY <1>1, <1>2, FidoForms, FidoFacts DEF Now, Listed, Here, Own
  <1>8. Spot' = r /\ lastread'[golded] = r
    BY <1>1, <1>2, <1>7, FidoForms DEF Spot, r
  <1>9. Files' = Files
    BY <1>2 DEF Files
  <1>10. NoMsg \in Loaded /\ NoMsg.no = 0 /\ NoOp \in FidoOps
    <2>1. NoMsg \in Loaded /\ NoMsg.no = 0
      BY DEF NoMsg, Loaded, NoFile, Message, Messages
    <2>2. NoOp \in FidoOps
      BY <1>4, <2>1 DEF NoOp, FidoOps
    <2> QED BY <2>1, <2>2
  <1>11. Files = {n \in Range(Listed) : n # Here.no}
    BY <1>3 DEF Rises
  <1>12. ASSUME NEW v \in Users
         PROVE  /\ lastreads'[v] = Adjusted(golded, lastreads[v])
                /\ lastreads'[v] \in 0..MaxMsgno /\ lastreads'[v] <= lastreads[v]
                /\ lastreads'[v] = 0 \/ \E n \in Files : lastreads'[v] <= n
    <2>1. lastreads[v] \in 0..MaxMsgno
      BY <1>1, FidoForms
    <2>2. lastreads'[v] = Adjusted(golded, lastreads[v])
      BY <1>2, <1>3
    <2>3. /\ Adjusted(golded, lastreads[v]) \in 0..MaxMsgno
          /\ Adjusted(golded, lastreads[v]) <= lastreads[v]
          /\ \/ Adjusted(golded, lastreads[v]) = 0
             \/ \E n \in Files : Adjusted(golded, lastreads[v]) <= n
      <3> HIDE DEF Files
      <3> QED BY <1>1, <1>11, <2>1, AdjustedFacts
    <2> QED BY <2>2, <2>3
  <1>13. FidoTypes'
    <2>1. lastreads' \in [Users -> 0..MaxMsgno]
      <3>1. DOMAIN lastreads' = Users /\ lastreads' = [v \in DOMAIN lastreads' |-> lastreads'[v]]
        BY <1>1, <1>2, FidoForms
      <3> QED BY <1>12, <3>1
    <2>2. dir' \in [1..MaxMsgno -> Messages] /\ answers' \in Seq(Nat)
      BY <1>1, <1>2 DEF FidoTypes, TypeOK
    <2>3. unread' \in [Users -> SUBSET DOMAIN answers']
      BY <1>1, <1>2, <1>4 DEF FidoTypes, TypeOK
    <2>4. /\ Msgn' = [Msgn EXCEPT ![golded] = Listed'] /\ Listed' \in Seq(1..MaxMsgno)
          /\ lastread' = [lastread EXCEPT ![golded] = Spot'] /\ Spot' \in 0..Len(Listed')
      <3>1. lastread' = [lastread EXCEPT ![golded] = r]
        BY <1>2, <1>7 DEF r
      <3> QED BY <1>2, <1>6, <1>7, <1>8, <3>1
    <2>5. /\ msg' = [msg EXCEPT ![golded] = Here'] /\ Here' \in Loaded
          /\ op' = [op EXCEPT ![golded] = Own'] /\ Own' \in FidoOps
          /\ pc' = [pc EXCEPT ![golded] = Now'] /\ Now' \in FidoPlaces
      BY <1>2, <1>7, <1>10 DEF FidoPlaces, Whole, Waits
    <2>6. \A n \in Files' : dir'[n].id \in DOMAIN answers'
      BY <1>1, <1>2, <1>9 DEF FidoTypes
    <2> QED BY <1>1, <2>1, <2>2, <2>3, <2>4, <2>5, <2>6, FidoTyped
  <1>14. FidoList'
    BY <1>5, <1>7, <1>9 DEF FidoList, Gone
  <1>15. FidoLocals'
    BY <1>7, <1>10 DEF FidoLocals, Known, Gone
  <1>16. FidoSeen'
    <2>1. \A i \in 1..Spot' : dir'[Listed'[i]].id \notin unread'[golded]
      BY <1>1, <1>2, <1>4, <1>7, <1>8, FidoForms
    <2>2. Scanned' = Files
      BY <1>5, <1>7 DEF Scanned, Rises
    <2>3. ASSUME ~renumbered, NEW v \in Users, v # golded PROVE NoneHidden(v)' /\ LowPointer(v)'
      <3>1. NoneHidden(v) /\ unread'[v] = unread[v]
        BY <1>1, <1>2, <2>3 DEF FidoSeen
      <3>2. ASSUME NEW n \in Files, n <= lastreads'[v] PROVE n <= lastreads[v]
        <4>1. n \in Nat /\ lastreads'[v] \in Nat /\ lastreads[v] \in Nat
          BY <1>1, <1>4, <1>12, FidoForms
        <4> QED BY <1>12, <3>2, <4>1
      <3>3. NoneHidden(v)'
        BY <1>2, <1>9, <3>1, <3>2 DEF NoneHidden
      <3>4. LowPointer(v)'
        BY <1>12, <2>2 DEF LowPointer
      <3> QED BY <3>3, <3>4
    <2> QED BY <1>2, <1>7, <2>1, <2>3 DEF FidoSeen
  <1> QED BY <1>13, <1>14, <1>15, <1>16 DEF FidoInv

\* Renumbering begins: the area is scanned again, and the list is what it was.
LEMMA FidoRenumber == ASSUME FidoInv, Renumber(golded) PROVE FidoInv'
  <1>1. FidoTypes /\ FidoList /\ FidoLocals /\ FidoSeen
    BY DEF FidoInv
  <1> DEFINE lr    == CvtReln(Listed, Spot)
             first == IF IsNet \/ Listed'[1] = 1 THEN 1 ELSE 2
  <1>2. /\ Now = "idle" /\ (IsNet \/ Files # {})
        /\ lastreads' = [lastreads EXCEPT ![golded] = lr]
        /\ Msgn' = [Msgn EXCEPT ![golded] = InOrder(Files)]
        /\ lastread' = [lastread EXCEPT ![golded] = ScanLastread(Files, lr)]
        /\ op' = [op EXCEPT ![golded].no = 1, ![golded].to = first]
        /\ msg' = [msg EXCEPT ![golded] = NoMsg]
        /\ renumbered' = TRUE
        /\ pc' = [pc EXCEPT ![golded] = "renumber"]
        /\ UNCHANGED <<dir, answers, unread>>
    BY DEF Renumber, Scan, SaveLastread, Now, Listed, Spot
  <1>3. Rises(Listed, Files)
    BY <1>1, <1>2 DEF FidoList, Whole, Waits
  <1>4. /\ lr \in 0..MaxMsgno /\ lr \in Nat
        /\ \A n \in Files : n <= lr => \E i \in 1..Spot : n = Listed[i]
    <2>1. lr \in 0..MaxMsgno /\ \A n \in Files : n <= lr => \E i \in 1..Spot : n = Listed[i]
      BY <1>1, <1>3, PointerFacts
    <2>2. lr \in Nat
      BY <2>1
    <2> QED BY <2>1, <2>2
  <1> HIDE DEF lr
  <1>5. /\ Rises(InOrder(Files), Files) /\ InOrder(Files) \in Seq(1..MaxMsgno)
        /\ ScanLastread(Files, lr) \in 0..Len(InOrder(Files))
        /\ \A i \in 1..ScanLastread(Files, lr) :
              InOrder(Files)[i] \in Files /\ InOrder(Files)[i] <= lr
    BY <1>1, <1>4, FidoScan
  <1>6. InOrder(Files) = Listed
    BY <1>3, <1>5, RisesOnce
  <1>7. /\ Now' = "renumber" /\ Listed' = Listed /\ Spot' = ScanLastread(Files, lr)
        /\ Here' = NoMsg /\ Own' = [Own EXCEPT !.no = 1, !.to = first]
    BY <1>1, <1>2, <1>6, FidoForms, FidoFacts DEF Now, Listed, Spot, Here, Own
  <1>8. first \in {1, 2}
    OBVIOUS
  <1>9. Own' \in FidoOps /\ Own'.no = 1 /\ Own'.to = first
    <2>1. first \in Nat
      BY <1>8
    <2> HIDE DEF first
    <2> QED BY <1>1, <1>7, <2>1, FidoForms DEF FidoOps
  <1>10. Files' = Files
    BY <1>2 DEF Files
  <1>11. NoMsg \in Loaded /\ NoMsg.no = 0
    BY DEF NoMsg, Loaded, NoFile, Message, Messages
  <1>12. FidoTypes'
    <2>1. op' = [op EXCEPT ![golded] = Own']
      <3> HIDE DEF first
      <3> QED BY <1>1, <1>2, <1>7, FidoForms DEF Own
    <2>2. /\ dir' \in [1..MaxMsgno -> Messages] /\ answers' \in Seq(Nat)
          /\ unread' \in [Users -> SUBSET DOMAIN answers']
      BY <1>1, <1>2 DEF FidoTypes, TypeOK
    <2>3. lastreads' \in [Users -> 0..MaxMsgno]
      BY <1>1, <1>2, <1>4 DEF FidoTypes, TypeOK
    <2>4. /\ Msgn' = [Msgn EXCEPT ![golded] = Listed'] /\ Listed' \in Seq(1..MaxMsgno)
          /\ lastread' = [lastread EXCEPT ![golded] = Spot'] /\ Spot' \in 0..Len(Listed')
      BY <1>2, <1>5, <1>6, <1>7
    <2>5. msg' = [msg EXCEPT ![golded] = Here'] /\ Here' \in Loaded
      BY <1>2, <1>7, <1>11
    <2>6. pc' = [pc EXCEPT ![golded] = Now'] /\ Now' \in FidoPlaces
      BY <1>2, <1>7 DEF FidoPlaces
    <2>7. \A m \in Files' : dir'[m].id \in DOMAIN answers'
      BY <1>1, <1>2, <1>10 DEF FidoTypes
    <2> QED BY <1>1, <1>9, <2>1, <2>2, <2>3, <2>4, <2>5, <2>6, <2>7, FidoTyped
  <1>13. Len(Listed) \in Nat /\ DOMAIN Listed = 1..Len(Listed)
         /\ \A i \in 1..Len(Listed) : Listed[i] \in 1..MaxMsgno
    BY <1>1, FidoFacts
  <1>14. \A i \in 1..Len(Listed) : NumberNow(i)' = Listed[i]
    <2>1. \A i \in 1..Len(Listed) : ~ (i < 1)
      BY <1>13
    <2> QED BY <1>7, <1>9, <2>1 DEF NumberNow
  <1>15. HalfRenumbered'
    <2>1. 1 \in 1..(Len(Listed) + 1)
      BY <1>13
    <2>2. Len(Listed) # 0 => first <= Listed[1]
      <3> SUFFICES ASSUME Len(Listed) # 0 PROVE first <= Listed[1]
        OBVIOUS
      <3>1. Listed[1] \in 1..MaxMsgno
        BY <1>13
      <3> QED BY <1>7, <3>1
    <2>3. \A i \in 1..Len(Listed) : i + first - 1 <= Listed[i]
      <3>1. first \in Nat
        BY <1>8
      <3> HIDE DEF first
      <3> QED BY <1>3, <2>2, <3>1, RisesAbove
    <2>4. Rises(Listed, Range(Listed)) /\ Files = {Listed[i] : i \in 1..Len(Listed)}
      BY <1>3, <1>13 DEF Rises, Range
    <2>5. Files' = {NumberNow(i)' : i \in 1..Len(Listed)}
      <3>1. {NumberNow(i)' : i \in 1..Len(Listed)} = {Listed[i] : i \in 1..Len(Listed)}
        BY <1>14
      <3> QED BY <1>10, <2>4, <3>1
    <2> HIDE DEF first
    <2> QED BY <1>7, <1>8, <1>9, <2>1, <2>3, <2>4, <2>5 DEF HalfRenumbered
  <1>16. FidoList' /\ FidoLocals'
    BY <1>2, <1>7, <1>11, <1>15 DEF FidoList, FidoLocals, Whole, Waits, Gone
  <1>17. FidoSeen'
    <2>1. ASSUME NEW i \in 1..ScanLastread(Files, lr)
          PROVE  dir[NumberNow(i)'].id \notin unread[golded]
      <3>1. Listed[i] \in Files /\ Listed[i] <= lr
        BY <1>5, <1>6
      <3>2. i \in 1..Len(Listed)
        BY <1>5, <1>6, <1>13
      <3>3. NumberNow(i)' = Listed[i]
        BY <1>14, <3>2
      <3>4. PICK j \in 1..Spot : Listed[i] = Listed[j]
        BY <1>4, <3>1
      <3> QED BY <1>1, <1>2, <3>3, <3>4 DEF FidoSeen, Waits
    <2> QED BY <1>2, <1>7, <2>1 DEF FidoSeen, Waits
  <1> QED BY <1>12, <1>16, <1>17 DEF FidoInv

\* A message gets its new number, which no other has: those before it have got
\* theirs, those after it have higher ones.
LEMMA FidoRenumberMsg == ASSUME FidoInv, RenumberMsg(golded) PROVE FidoInv' /\ FileRenamed
  <1>1. FidoTypes /\ FidoList /\ FidoLocals /\ FidoSeen
    BY DEF FidoInv
  <1>0. PICK j : j = Own.no
    OBVIOUS
  <1> DEFINE old == Listed[j]
             new == j + Own.to - 1
             m   == Message(dir[old].id, ToReln(Listed, dir[old].to), ToReln(Listed, dir[old].first))
  <1>2. /\ Now = "renumber" /\ j <= Len(Listed)
        /\ dir' = IF new = old \/ old \notin Files THEN dir
                  ELSE [dir EXCEPT ![old] = NoFile, ![new] = m]
        /\ op' = [op EXCEPT ![golded].no = @ + 1]
        /\ UNCHANGED <<lastreads, Msgn, lastread, msg, pc, answers, unread, renumbered>>
    BY <1>0 DEF RenumberMsg, history, Now, Listed, Own
  <1>3. HalfRenumbered /\ renumbered /\ Here.no = 0
    BY <1>1, <1>2 DEF FidoList, FidoLocals
  <1>4. /\ Listed \in Seq(1..MaxMsgno) /\ Len(Listed) \in Nat /\ MaxMsgno \in Nat
        /\ \A i \in 1..Len(Listed) : Listed[i] \in 1..MaxMsgno
        /\ dir \in [1..MaxMsgno -> Messages] /\ Files \subseteq 1..MaxMsgno
        /\ Own \in FidoOps /\ op \in [Running -> FidoOps] /\ Spot \in 0..Len(Listed)
        /\ \A n \in Files : dir[n].id \in 1..Len(answers)
    <2>1. dir \in [1..MaxMsgno -> Messages] /\ op \in [Running -> FidoOps]
      BY <1>1 DEF FidoTypes, TypeOK, FidoOps
    <2>2. \A n \in Files : dir[n].id \in DOMAIN answers
      BY <1>1 DEF FidoTypes
    <2> QED BY <1>1, <2>1, <2>2, FidoFacts, FidoForms
  <1>5. /\ j \in 1..Len(Listed) /\ Own.to \in {1, 2} /\ j \in Nat /\ new \in Nat /\ new # 0
        /\ old \in 1..MaxMsgno /\ new <= old
    <2>1. j \in 1..(Len(Listed) + 1) /\ Own.to \in {1, 2}
          /\ \A i \in 1..Len(Listed) : i + Own.to - 1 <= Listed[i]
      BY <1>0, <1>3 DEF HalfRenumbered
    <2>2. j \in 1..Len(Listed)
      BY <1>0, <1>2, <1>4, <2>1
    <2> QED BY <1>4, <2>1, <2>2
  <1>6. \A i, k \in 1..Len(Listed) : i < k => Listed[i] < Listed[k]
    BY <1>3 DEF HalfRenumbered, Rises
  <1>7. Files = {NumberNow(i) : i \in 1..Len(Listed)}
    BY <1>3 DEF HalfRenumbered
  <1>8. NumberNow(j) = old /\ old \in Files
    <2>1. NumberNow(j) = old
      BY <1>0, <1>5 DEF NumberNow
    <2> QED BY <1>5, <1>7, <2>1
  <1>9. ASSUME NEW i \in 1..Len(Listed), i # j
        PROVE  /\ NumberNow(i) \in Nat /\ NumberNow(i) # old /\ NumberNow(i) # new
               /\ NumberNow(i) = (IF i < j + 1 THEN i + Own.to - 1 ELSE Listed[i])
    <2>1. CASE i < j
      <3>1. NumberNow(i) = i + Own.to - 1
        BY <1>0, <2>1 DEF NumberNow
      <3>2. i \in Nat /\ i < j + 1 /\ old \in Nat
        BY <1>5, <2>1
      <3> HIDE DEF old
      <3> QED BY <1>5, <2>1, <3>1, <3>2
    <2>2. CASE j < i
      <3>1. NumberNow(i) = Listed[i] /\ ~ (i < j + 1)
        BY <1>0, <1>5, <2>2 DEF NumberNow
      <3>2. old < Listed[i] /\ Listed[i] \in Nat /\ old \in Nat
        BY <1>4, <1>5, <1>6, <2>2
      <3> HIDE DEF old
      <3> QED BY <1>5, <3>1, <3>2
    <2> QED BY <1>5, <1>9, <2>1, <2>2
  <1>10. new = old \/ new \notin Files
    <2> SUFFICES ASSUME new # old, new \in Files PROVE FALSE
      OBVIOUS
    <2>1. PICK i \in 1..Len(Listed) : new = NumberNow(i)
      BY <1>7
    <2> HIDE DEF new, old
    <2> QED BY <1>8, <1>9, <2>1
  <1>21. \A n \in Files \ {old} : n # new /\ (n < new <=> n < old)
    <2> SUFFICES ASSUME NEW n \in Files \ {old} PROVE n # new /\ (n < new <=> n < old)
      OBVIOUS
    <2>1. PICK i \in 1..Len(Listed) : n = NumberNow(i)
      BY <1>7
    <2>2. i # j
      BY <1>8, <2>1
    <2>6. n # new /\ n \in Nat
      BY <1>9, <2>1, <2>2
    <2>7. i \in Nat /\ Own.to \in Nat
      <3>1. Len(Listed) \in Nat
        BY <1>4
      <3>2. Own.to \in {1, 2}
        BY <1>5
      <3>3. Own.to \in Nat
        BY <3>2
      <3> QED BY <3>1, <3>3
    <2>3. CASE i < j
      <3>1. n = i + Own.to - 1
        BY <1>0, <2>1, <2>3 DEF NumberNow
      <3>2. n < new
        BY <1>5, <2>3, <2>7, <3>1
      <3> HIDE DEF new, old
      <3>3. n < old
        BY <1>4, <1>5, <2>6, <3>2
      <3> QED BY <2>6, <3>2, <3>3
    <2>4. CASE j < i
      <3>1. n = Listed[i]
        BY <1>0, <1>5, <2>1, <2>4 DEF NumberNow
      <3>2. old < n
        BY <1>5, <1>6, <2>4, <3>1
      <3> HIDE DEF new, old
      <3>3. ~ (n < old) /\ ~ (n < new)
        BY <1>4, <1>5, <2>6, <3>2
      <3> QED BY <2>6, <3>3
    <2> QED BY <1>5, <2>2, <2>3, <2>4, <2>7
  <1> HIDE DEF m
  <1>11. m \in Messages /\ m.id = dir[old].id /\ m # NoFile
    <2>1. ToReln(Listed, dir[old].to) \in Nat /\ ToReln(Listed, dir[old].first) \in Nat
      <3>1. /\ ToReln(Listed, dir[old].to) \in 0..Len(Listed)
            /\ ToReln(Listed, dir[old].first) \in 0..Len(Listed)
        BY <1>4, ToRelnFacts
      <3> QED BY <1>4, <3>1
    <2>2. dir[old].id \in Nat /\ dir[old].id # 0
      <3>1. dir[old].id \in 1..Len(answers) /\ Len(answers) \in Nat
        BY <1>1, <1>4, <1>8, FidoForms
      <3> QED BY <3>1
    <2> HIDE DEF old
    <2> QED BY <2>1, <2>2 DEF m, Message, Messages, NoFile
  <1>12. /\ dir' \in [1..MaxMsgno -> Messages] /\ new \in Files' /\ dir'[new].id = dir[old].id
         /\ Files' = (Files \ {old}) \cup {new}
         /\ \A n \in Files \ {old} : dir'[n] = dir[n]
    <2>1. CASE new = old
      <3>1. dir' = dir
        BY <1>2, <2>1
      <3>2. Files' = Files
        BY <3>1 DEF Files
      <3> QED BY <1>4, <1>8, <2>1, <3>1, <3>2
    <2>2. CASE new # old
      <3> DEFINE cleared == [dir EXCEPT ![old] = NoFile]
      <3>1. dir' = [cleared EXCEPT ![new] = m]
        BY <1>2, <1>8, <2>2
      <3>2. new \in 1..MaxMsgno /\ new \notin Files
        BY <1>4, <1>5, <1>10, <2>2
      <3>3. NoFile \in Messages
        BY DEF NoFile, Message, Messages
      <3> HIDE DEF new, old
      <3>4. /\ DOMAIN dir' = 1..MaxMsgno /\ dir'[new] = m /\ dir'[old] = NoFile
            /\ \A n \in 1..MaxMsgno : n # new /\ n # old => dir'[n] = dir[n]
        BY <1>4, <1>5, <2>2, <3>1, <3>2
      <3>5. dir' \in [1..MaxMsgno -> Messages]
        BY <1>4, <1>11, <3>1, <3>3
      <3>6. Files' = (Files \ {old}) \cup {new}
        <4>1. DOMAIN dir = 1..MaxMsgno
          BY <1>4
        <4> QED BY <1>11, <3>2, <3>4, <4>1 DEF Files
      <3>7. \A n \in Files \ {old} : dir'[n] = dir[n]
        BY <1>4, <3>2, <3>4
      <3> QED BY <1>11, <3>4, <3>5, <3>6, <3>7
    <2> QED BY <2>1, <2>2
  <1>13. /\ Now' = "renumber" /\ Listed' = Listed /\ Spot' = Spot /\ Here' = Here
         /\ Own' = [Own EXCEPT !.no = j + 1]
    BY <1>0, <1>1, <1>2, FidoForms, FidoFacts DEF Now, Listed, Spot, Here, Own
  <1>14. Own' \in FidoOps /\ Own'.no = j + 1 /\ Own'.to = Own.to
    <2>1. j + 1 \in Nat
      BY <1>5
    <2> QED BY <1>4, <1>13, <2>1 DEF FidoOps
  <1>15. /\ NumberNow(j)' = new
         /\ \A i \in 1..Len(Listed) : i # j => NumberNow(i)' = NumberNow(i)
    <2>1. NumberNow(j)' = new
      BY <1>5, <1>14 DEF NumberNow
    <2>2. ASSUME NEW i \in 1..Len(Listed), i # j PROVE NumberNow(i)' = NumberNow(i)
      BY <1>9, <1>13, <1>14, <2>2 DEF NumberNow
    <2> QED BY <2>1, <2>2
  <1>16. \A i \in 1..Len(Listed) : dir'[NumberNow(i)'].id = dir[NumberNow(i)].id
    <2> SUFFICES ASSUME NEW i \in 1..Len(Listed) PROVE dir'[NumberNow(i)'].id = dir[NumberNow(i)].id
      OBVIOUS
    <2>1. CASE i = j
      BY <1>8, <1>12, <1>15, <2>1
    <2>2. CASE i # j
      <3>1. NumberNow(i) \in Files \ {old}
        BY <1>7, <1>9, <2>2
      <3> QED BY <1>12, <1>15, <2>2, <3>1
    <2> QED BY <2>1, <2>2
  <1> HIDE DEF new, old
  <1>17. HalfRenumbered'
    <2>1. j + 1 \in 1..(Len(Listed) + 1)
      BY <1>4, <1>5
    <2>2. Files' = {NumberNow(i)' : i \in 1..Len(Listed)}
      <3>1. ASSUME NEW i \in 1..Len(Listed) PROVE NumberNow(i)' \in Files'
        <4>1. CASE i = j
          BY <1>12, <1>15, <4>1
        <4>2. CASE i # j
          BY <1>7, <1>9, <1>12, <1>15, <4>2
        <4> QED BY <4>1, <4>2
      <3>2. ASSUME NEW n \in Files' PROVE \E i \in 1..Len(Listed) : n = NumberNow(i)'
        <4>1. CASE n = new
          BY <1>5, <1>15, <4>1
        <4>2. CASE n # new
          <5>1. n \in Files /\ n # old
            BY <1>12, <4>2
          <5>2. PICK i \in 1..Len(Listed) : n = NumberNow(i)
            BY <1>7, <5>1
          <5> QED BY <1>8, <1>15, <5>1, <5>2
        <4> QED BY <4>1, <4>2
      <3> QED BY <3>1, <3>2
    <2>3. HalfRenumbered
      BY <1>3
    <2>4. \A i \in 1..Len(Listed) : i + Own'.to - 1 <= Listed[i]
      BY <1>14, <2>3 DEF HalfRenumbered
    <2> QED BY <1>13, <1>14, <2>1, <2>2, <2>3, <2>4 DEF HalfRenumbered
  <1>18. FidoTypes'
    <2>1. op' = [op EXCEPT ![golded] = Own']
      BY <1>0, <1>1, <1>2, <1>5, <1>13, FidoForms DEF Own
    <2>2. /\ lastreads' \in [Users -> 0..MaxMsgno] /\ answers' \in Seq(Nat)
          /\ unread' \in [Users -> SUBSET DOMAIN answers']
      BY <1>1, <1>2 DEF FidoTypes, TypeOK
    <2>3. /\ Msgn' = [Msgn EXCEPT ![golded] = Listed'] /\ Listed' \in Seq(1..MaxMsgno)
          /\ lastread' = [lastread EXCEPT ![golded] = Spot'] /\ Spot' \in 0..Len(Listed')
          /\ msg' = [msg EXCEPT ![golded] = Here'] /\ Here' \in Loaded
      BY <1>1, <1>2, <1>13, FidoForms, FidoFacts
    <2>4. pc' = [pc EXCEPT ![golded] = Now'] /\ Now' \in FidoPlaces
      <3>1. pc' = [pc EXCEPT ![golded] = Now]
        BY <1>1, <1>2 DEF FidoTypes, Now
      <3> QED BY <1>2, <1>13, <3>1 DEF FidoPlaces
    <2>5. \A n \in Files' : dir'[n].id \in DOMAIN answers'
      <3>1. \A n \in Files : dir[n].id \in DOMAIN answers
        BY <1>1 DEF FidoTypes
      <3> QED BY <1>2, <1>8, <1>12, <3>1
    <2> QED BY <1>1, <1>12, <1>14, <2>1, <2>2, <2>3, <2>4, <2>5, FidoTyped
  <1>19. FidoList' /\ FidoLocals'
    BY <1>2, <1>3, <1>13, <1>17 DEF FidoList, FidoLocals, Whole, Waits, Gone
  <1>20. FidoSeen'
    <2>1. \A i \in 1..Spot : dir'[NumberNow(i)'].id \notin unread[golded]
      <3>1. \A i \in 1..Spot : i \in 1..Len(Listed)
        BY <1>4
      <3>2. \A i \in 1..Spot : dir[NumberNow(i)].id \notin unread[golded]
        BY <1>1, <1>2 DEF FidoSeen
      <3> QED BY <1>16, <3>1, <3>2
    <2> QED BY <1>2, <1>3, <1>13, <2>1 DEF FidoSeen, Waits
  <1>22. FileRenamed
    <2>1. new \in 1..MaxMsgno
      BY <1>4, <1>5
    <2> QED BY <1>2, <1>8, <1>12, <1>21, <2>1 DEF FileRenamed, SameIds
  <1> QED BY <1>18, <1>19, <1>20, <1>22 DEF FidoInv

LEMMA FidoRenumberIndex == ASSUME FidoInv, RenumberIndex(golded) PROVE FidoInv'
  <1>1. FidoTypes /\ FidoList /\ FidoLocals /\ FidoSeen
    BY DEF FidoInv
  <1> DEFINE new == [i \in DOMAIN Listed |-> i + Own.to - 1]
  <1>2. /\ Now = "renumber" /\ Own.no > Len(Listed)
        /\ Msgn' = [Msgn EXCEPT ![golded] = new]
        /\ op' = [op EXCEPT ![golded] = NoOp]
        /\ pc' = [pc EXCEPT ![golded] = "idle"]
        /\ UNCHANGED <<dir, lastreads, lastread, msg, answers, unread, renumbered>>
    <2>1. Msgn' = [Msgn EXCEPT ![golded] = [i \in DOMAIN @ |-> i + Own.to - 1]]
      BY DEF RenumberIndex, Own
    <2>2. Msgn' = [Msgn EXCEPT ![golded] = new]
      BY <2>1 DEF Listed
    <2> QED BY <2>2 DEF RenumberIndex, history, Now, Listed, Own
  <1>3. HalfRenumbered /\ renumbered /\ Here.no = 0
    BY <1>1, <1>2 DEF FidoList, FidoLocals
  <1>4. /\ Listed \in Seq(1..MaxMsgno) /\ Len(Listed) \in Nat /\ MaxMsgno \in Nat
        /\ DOMAIN Listed = 1..Len(Listed)
        /\ \A i \in 1..Len(Listed) : Listed[i] \in 1..MaxMsgno
        /\ Spot \in 0..Len(Listed)
    BY <1>1, FidoFacts
  <1>5. /\ Own.to \in {1, 2} /\ \A i \in 1..Len(Listed) : i + Own.to - 1 <= Listed[i]
        /\ Own.no = Len(Listed) + 1
    <2>1. Own.no \in 1..(Len(Listed) + 1)
      BY <1>3 DEF HalfRenumbered
    <2>2. Own.no = Len(Listed) + 1
      BY <1>2, <1>4, <2>1
    <2> QED BY <1>3, <2>2 DEF HalfRenumbered
  <1>6. \A i \in 1..Len(Listed) : NumberNow(i) = new[i] /\ new[i] = i + Own.to - 1
    <2>1. \A i \in 1..Len(Listed) : i < Len(Listed) + 1
      BY <1>4
    <2> QED BY <1>4, <1>5, <2>1 DEF NumberNow
  <1>7. new \in Seq(1..MaxMsgno) /\ Len(new) = Len(Listed) /\ Range(new) = Files
    <2>1. \A i \in 1..Len(Listed) : i + Own.to - 1 \in 1..MaxMsgno
      <3> SUFFICES ASSUME NEW i \in 1..Len(Listed) PROVE i + Own.to - 1 \in 1..MaxMsgno
        OBVIOUS
      <3>1. i + Own.to - 1 <= Listed[i] /\ Listed[i] \in 1..MaxMsgno
        BY <1>4, <1>5
      <3> QED BY <1>4, <1>5, <3>1
    <2>2. new \in Seq(1..MaxMsgno) /\ Len(new) = Len(Listed) /\ DOMAIN new = 1..Len(Listed)
      BY <1>4, <2>1
    <2>3. Files = {NumberNow(i) : i \in 1..Len(Listed)}
      BY <1>3 DEF HalfRenumbered
    <2>4. {NumberNow(i) : i \in 1..Len(Listed)} = {new[i] : i \in 1..Len(Listed)}
      BY <1>6
    <2>5. Range(new) = {new[i] : i \in 1..Len(Listed)}
      BY <2>2 DEF Range
    <2> QED BY <2>2, <2>3, <2>4, <2>5
  <1>8. \A i, k \in 1..Len(new) : i < k => new[i] < new[k]
    BY <1>4, <1>5, <1>6, <1>7
  <1>9. Rises(new, Files)
    <2>1. new \in Seq(Nat)
      <3>1. \A i \in 1..Len(new) : new[i] \in Nat
        BY <1>4, <1>5, <1>6, <1>7
      <3>2. new = [i \in 1..Len(new) |-> new[i]] /\ Len(new) \in Nat
        BY <1>7
      <3> HIDE DEF new
      <3> QED BY <3>1, <3>2
    <2> HIDE DEF new
    <2> QED BY <1>7, <1>8, <2>1 DEF Rises
  <1> HIDE DEF new
  <1>10. Now' = "idle" /\ Listed' = new /\ Spot' = Spot /\ Here' = Here /\ Own' = NoOp
    BY <1>1, <1>2, FidoForms, FidoFacts DEF Now, Listed, Spot, Here, Own
  <1>11. Files' = Files
    BY <1>2 DEF Files
  <1>12. NoOp \in FidoOps
    <2>1. NoMsg \in Loaded
      BY DEF NoMsg, Loaded, NoFile, Message, Messages
    <2> QED BY <1>4, <2>1 DEF NoOp, FidoOps
  <1>13. FidoTypes'
    <2>1. /\ dir' \in [1..MaxMsgno -> Messages] /\ lastreads' \in [Users -> 0..MaxMsgno]
          /\ answers' \in Seq(Nat) /\ unread' \in [Users -> SUBSET DOMAIN answers']
      BY <1>1, <1>2 DEF FidoTypes, TypeOK
    <2>2. /\ Msgn' = [Msgn EXCEPT ![golded] = Listed'] /\ Listed' \in Seq(1..MaxMsgno)
          /\ Spot' \in 0..Len(Listed')
      BY <1>2, <1>4, <1>7, <1>10
    <2>3. /\ lastread' = [lastread EXCEPT ![golded] = Spot']
          /\ msg' = [msg EXCEPT ![golded] = Here'] /\ Here' \in Loaded
      BY <1>1, <1>2, <1>10, FidoForms, FidoFacts
    <2>4. /\ op' = [op EXCEPT ![golded] = Own'] /\ Own' \in FidoOps
          /\ pc' = [pc EXCEPT ![golded] = Now'] /\ Now' \in FidoPlaces
      BY <1>2, <1>10, <1>12 DEF FidoPlaces, Whole, Waits
    <2>5. \A n \in Files' : dir'[n].id \in DOMAIN answers'
      BY <1>1, <1>2, <1>11 DEF FidoTypes
    <2> QED BY <1>1, <2>1, <2>2, <2>3, <2>4, <2>5, FidoTyped
  <1>14. FidoList' /\ FidoLocals'
    BY <1>3, <1>9, <1>10, <1>11 DEF FidoList, FidoLocals, Known, Whole, Waits, Gone
  <1>15. FidoSeen'
    <2>1. \A i \in 1..Spot : dir[new[i]].id \notin unread[golded]
      <3>1. \A i \in 1..Spot : i \in 1..Len(Listed)
        BY <1>4
      <3>2. \A i \in 1..Spot : dir[NumberNow(i)].id \notin unread[golded]
        BY <1>1, <1>2 DEF FidoSeen
      <3> QED BY <1>6, <3>1, <3>2
    <2> QED BY <1>2, <1>3, <1>10, <2>1 DEF FidoSeen, Waits
  <1> QED BY <1>13, <1>14, <1>15 DEF FidoInv

LEMMA FidoStep == FidoInv /\ [Next]_vars => FidoInv'
  <1> SUFFICES ASSUME FidoInv, [Next]_vars PROVE FidoInv'
    OBVIOUS
  <1>1. CASE UNCHANGED vars
    <2>1. UNCHANGED <<dir, lastreads, Msgn, lastread, msg, pc, op, answers, unread, renumbered>>
      BY <1>1 DEF vars, history
    <2>2. Files' = Files
      BY <2>1 DEF Files
    <2>3. FidoTypes'
      BY <2>1, <2>2 DEF FidoInv, FidoTypes, TypeOK
    <2>4. FidoList'
      BY <2>1, <2>2 DEF FidoInv, FidoList, HalfRenumbered, NumberNow, Listed, Now, Here, Own
    <2>5. FidoLocals'
      BY <2>1, <2>2 DEF FidoInv, FidoLocals, Known, Now, Here, Own
    <2>6. FidoSeen'
      BY <2>1, <2>2 DEF FidoInv, FidoSeen, NoneHidden, LowPointer, Scanned, NumberNow,
                        Listed, Spot, Now, Own
    <2> QED BY <2>3, <2>4, <2>5, <2>6 DEF FidoInv
  <1>2. CASE Step(golded)
    <2>1. CASE \/ Open(golded) \/ Close(golded) \/ Suspend(golded) \/ Read(golded)
               \/ \E mode \in {"post", "reply"} : Post(golded, mode)
      BY <2>1, FidoOpen, FidoCloses, FidoRead, FidoPost
    <2>2. CASE \/ Create(golded) \/ LoadOriginal(golded) \/ LinkOriginal(golded) \/ SaveHdr(golded)
      BY <2>2, FidoCreate, FidoLoadOriginal, FidoSaves
    <2>3. CASE \/ Delete(golded) \/ SaveSplice(golded) \/ RemoveFile(golded)
               \/ ReadLastreads(golded) \/ AdjustLastreads(golded)
      BY <2>3, FidoDelete, FidoSplice, FidoRemove, FidoReadLastreads, FidoAdjust
    <2>4. CASE Renumber(golded) \/ RenumberMsg(golded) \/ RenumberIndex(golded)
      BY <2>4, FidoRenumber, FidoRenumberMsg, FidoRenumberIndex
    <2> QED BY <1>2, <2>1, <2>2, <2>3, <2>4 DEF Step
  <1> QED BY <1>1, <1>2, AloneAssumption DEF Next

LEMMA FidoHides == FidoInv => NothingHidden
  <1> SUFFICES ASSUME FidoInv, NEW u \in Users, pc[u] = "closed", renumbered => u \in Running
               PROVE  Hidden(u) = {}
    BY DEF NothingHidden
  <1>1. NoneHidden(u)
    BY AloneAssumption DEF FidoInv, FidoSeen, Now
  <1> QED BY <1>1 DEF NoneHidden, Hidden

\* *.MSG by itself: files, pointers and what the program knows keep their shape.
THEOREM FidoTypeCorrect == Spec => []TypeOK
  <1>1. FidoInv => TypeOK
    BY DEF FidoInv, FidoTypes
  <1> QED BY <1>1, FidoInit, FidoStep, PTL DEF Spec

-----------------------------------------------------------------------------
\* What every step does to the files.
LEMMA FilesStep ==
    ASSUME FidoInv, Step(golded)
    PROVE  FilesStay \/ FileAdded \/ FileRemoved \/ FileRenamed
  <1>1. ASSUME UNCHANGED <<dir, answers>> PROVE FilesStay
    BY <1>1 DEF FilesStay, SameIds, Files
  <1>2. CASE \/ Open(golded) \/ Close(golded) \/ Suspend(golded) \/ Read(golded)
             \/ \E mode \in {"post", "reply"} : Post(golded, mode)
    BY <1>1, <1>2 DEF Open, Close, Suspend, Read, Post, history
  <1>3. CASE LoadOriginal(golded) \/ Delete(golded) \/ ReadLastreads(golded) \/ AdjustLastreads(golded)
    BY <1>1, <1>3 DEF LoadOriginal, Delete, ReadLastreads, AdjustLastreads, history
  <1>4. CASE Renumber(golded) \/ RenumberIndex(golded)
    BY <1>1, <1>4 DEF Renumber, RenumberIndex, history
  <1>5. CASE \/ Create(golded) \/ LinkOriginal(golded) \/ SaveHdr(golded) \/ SaveSplice(golded)
             \/ RemoveFile(golded) \/ RenumberMsg(golded)
    BY <1>5, FidoCreate, FidoSaves, FidoSplice, FidoRemove, FidoRenumberMsg
  <1> QED BY <1>2, <1>3, <1>4, <1>5 DEF Step

-----------------------------------------------------------------------------
\* The files in order are the messages in the order posted.
OrderInv == \A m, n \in Files : m < n => dir[m].id < dir[n].id

AllIds == {dir[n].id : n \in Files}
IdList == [i \in 1..Cardinality(Files) |-> dir[InOrder(Files)[i]].id]

LEMMA OrderInit == Init => OrderInv
  <1> SUFFICES ASSUME Init, NEW m \in Files, NEW n \in Files, m < n PROVE dir[m].id < dir[n].id
    BY DEF OrderInv
  <1>1. FirstNos \subseteq 1..MaxMsgno /\ MaxMsgno \in Nat /\ IsFiniteSet(FirstNos)
        /\ FirstNos \subseteq Int
    <2>1. FirstNos \subseteq 1..MaxMsgno /\ MaxMsgno \in Nat
      BY NumberAssumption
    <2>2. IsFiniteSet(1..MaxMsgno)
      BY <2>1, FS_Interval
    <2>3. IsFiniteSet(FirstNos)
      BY <2>1, <2>2, FS_Subset
    <2>4. FirstNos \subseteq Int
      BY <2>1
    <2> QED BY <2>1, <2>3, <2>4
  <1>2. \A k \in Files : k \in FirstNos /\ dir[k].id = First(k)
    <2> SUFFICES ASSUME NEW k \in Files PROVE k \in FirstNos /\ dir[k].id = First(k)
      OBVIOUS
    <2>1. k \in 1..MaxMsgno /\ dir[k] # NoFile
          /\ dir[k] = (IF k \in FirstNos THEN Message(First(k), 0, 0) ELSE NoFile)
      BY DEF Files, Init
    <2> QED BY <2>1 DEF Message
  <1>3. First(m) = Rank(FirstNos, m) /\ First(n) = Rank(FirstNos, n)
    BY DEF First, Rank
  <1>4. Rank(FirstNos, m) < Rank(FirstNos, n)
    <2>1. m \in FirstNos /\ n \in FirstNos
      BY <1>2
    <2>2. m \in Int /\ n \in Int
      BY <1>1, <2>1
    <2>3. m <= n
      BY <2>2
    <2> QED BY <1>1, <2>1, <2>2, <2>3, RankRises
  <1> QED BY <1>2, <1>3, <1>4

LEMMA OrderStep ==
    ASSUME FidoTypes, OrderInv, FilesStay \/ FileAdded \/ FileRemoved \/ FileRenamed
    PROVE  OrderInv'
  <1>1. /\ Files \subseteq 1..MaxMsgno /\ MaxMsgno \in Nat /\ Len(answers) \in Nat
        /\ \A n \in Files : dir[n].id \in 1..Len(answers)
    BY FidoFacts, FidoForms DEF FidoTypes
  <1>2. CASE FilesStay
    BY <1>2 DEF FilesStay, SameIds, OrderInv
  <1>3. CASE FileAdded
    <2>1. PICK k \in 1..MaxMsgno :
            /\ Files' = Files \cup {k} /\ \A n \in Files : n < k
            /\ SameIds(Files) /\ dir'[k].id = Len(answers) + 1
      BY <1>3 DEF FileAdded
    <2> SUFFICES ASSUME NEW m \in Files', NEW n \in Files', m < n PROVE dir'[m].id < dir'[n].id
      BY DEF OrderInv
    <2>2. m \in Files
      BY <1>1, <2>1
    <2>3. CASE n = k
      <3>1. dir'[m].id \in 1..Len(answers)
        BY <1>1, <2>1, <2>2 DEF SameIds
      <3> QED BY <1>1, <2>1, <2>3, <3>1
    <2>4. CASE n \in Files
      BY <2>1, <2>2, <2>4 DEF SameIds, OrderInv
    <2> QED BY <2>1, <2>3, <2>4
  <1>4. CASE FileRemoved
    BY <1>4 DEF FileRemoved, SameIds, OrderInv
  <1>5. CASE FileRenamed
    <2>1. PICK old \in Files, new \in 1..MaxMsgno :
            /\ Files' = (Files \ {old}) \cup {new} /\ dir'[new].id = dir[old].id
            /\ SameIds(Files \ {old})
            /\ \A n \in Files \ {old} : n # new /\ (n < new <=> n < old)
      BY <1>5 DEF FileRenamed
    <2> SUFFICES ASSUME NEW m \in Files', NEW n \in Files', m < n PROVE dir'[m].id < dir'[n].id
      BY DEF OrderInv
    <2>2. old \in Nat /\ new \in Nat /\ m \in Nat /\ n \in Nat
      BY <1>1, <2>1
    <2>3. CASE m = new
      <3>1. n \in Files \ {old}
        BY <2>1, <2>2, <2>3
      <3>2. ~ (n < old) /\ n # old
        BY <2>1, <2>2, <2>3, <3>1
      <3>3. old < n
        BY <2>2, <3>2
      <3> QED BY <2>1, <2>3, <3>1, <3>3 DEF OrderInv, SameIds
    <2>4. CASE n = new /\ m # new
      <3>1. m \in Files \ {old} /\ m < old
        BY <2>1, <2>4
      <3> QED BY <2>1, <2>4, <3>1 DEF OrderInv, SameIds
    <2>5. CASE m # new /\ n # new
      <3>1. m \in Files \ {old} /\ n \in Files \ {old}
        BY <2>1, <2>5
      <3> QED BY <2>1, <3>1 DEF OrderInv, SameIds
    <2> QED BY <2>3, <2>4, <2>5
  <1> QED BY <1>2, <1>3, <1>4, <1>5

\* That list is determined by the messages that are there.
IdListOK ==   /\ Rises(IdList, AllIds) /\ IdList \in Seq(Nat)
           /\ Cardinality(Files) \in Nat /\ Len(IdList) = Cardinality(Files)
           /\ DOMAIN IdList = 1..Cardinality(Files)
           /\ IsFiniteSet(Files) /\ \A i \in 1..Cardinality(Files) : IdList[i] = dir[InOrder(Files)[i]].id

LEMMA IdListRises == FidoTypes /\ OrderInv => IdListOK
  <1> SUFFICES ASSUME FidoTypes, OrderInv PROVE IdListOK
    OBVIOUS
  <1> DEFINE x == [n \in Files |-> dir[n].id]
             c == Cardinality(Files)
  <1>1. Files \subseteq 1..MaxMsgno /\ MaxMsgno \in Nat /\ \A n \in Files : dir[n].id \in Nat
    BY FidoFacts
  <1>2. /\ IsFiniteSet(Files) /\ c \in Nat /\ \A k \in 1..c : Nth(Files, k) \in Files
    BY <1>1, NthFacts
  <1>3. Rises(Chosen(x, Files), {x[i] : i \in Files})
    <2>1. /\ \A i \in Files : x[i] \in Nat
          /\ \A i, j \in Files : i < j => x[i] < x[j]
      BY <1>1 DEF OrderInv
    <2> HIDE DEF x
    <2> QED BY <1>1, <2>1, ChosenRises
  <1>4. {x[i] : i \in Files} = AllIds
    BY DEF AllIds
  <1>5. \A k \in 1..c : InOrder(Files)[k] = Nth(Files, k)
    BY <1>2 DEF InOrder, Chosen
  <1>6. Chosen(x, Files) = [k \in 1..c |-> dir[Nth(Files, k)].id]
    BY <1>2 DEF Chosen
  <1>7. Chosen(x, Files) = IdList
    BY <1>5, <1>6 DEF IdList
  <1>8. /\ IdList \in Seq(Nat) /\ DOMAIN IdList = 1..c
        /\ \A i \in 1..c : IdList[i] = dir[InOrder(Files)[i]].id
    BY <1>3, <1>7 DEF Rises, IdList
  <1>9. Len(IdList) = c
    BY <1>2, <1>8
  <1> QED BY <1>2, <1>3, <1>4, <1>7, <1>8, <1>9 DEF IdListOK

LEMMA IdListNext == FidoTypes' /\ OrderInv' => IdListOK'
  BY IdListRises, PTL

-----------------------------------------------------------------------------
\* What the refinement maps to, as a list of messages.
Mapped == [i \in 1..Cardinality(Files) |-> [msgno |-> dir[InOrder(Files)[i]].id, by |-> "anyone"]]

LEMMA ListIs == IdListOK => Mapped = AsList(IdList)
  BY DEF Mapped, AsList, IdListOK

LEMMA ListNextIs == (IdListOK => Mapped = AsList(IdList))'
  BY ListIs, PTL

LEMMA ListStep ==
    ASSUME FidoInv, OrderInv, FidoInv', OrderInv',
           FilesStay \/ FileAdded \/ FileRemoved \/ FileRenamed
    PROVE  [List!Next]_(List!vars)
  <1> DEFINE list  == [i \in 1..Cardinality(Files) |->
                        [msgno |-> dir[InOrder(Files)[i]].id, by |-> "anyone"]]
  <1>0. list = Mapped /\ list' = Mapped'
    BY DEF Mapped
  <1>1. list = AsList(IdList) /\ list' = AsList(IdList')
    <2>1. IdListOK /\ IdListOK'
      BY IdListRises, IdListNext DEF FidoInv
    <2>2. Mapped = AsList(IdList)
      BY <2>1, ListIs
    <2>3. Mapped' = AsList(IdList)'
      BY <2>1, ListNextIs
    <2>4. AsList(IdList)' = AsList(IdList')
      BY DEF AsList
    <2> HIDE DEF list
    <2> QED BY <1>0, <2>2, <2>3, <2>4
  <1>2. /\ Rises(IdList, AllIds) /\ IdList \in Seq(Nat) /\ Len(IdList) \in Nat
        /\ DOMAIN IdList = 1..Len(IdList)
    BY IdListRises DEF FidoInv, IdListOK
  <1>3. /\ Rises(IdList', AllIds') /\ IdList' \in Seq(Nat)
    BY IdListNext DEF FidoInv, IdListOK
  <1>4. /\ Files \subseteq 1..MaxMsgno /\ MaxMsgno \in Nat /\ Len(answers) \in Nat
        /\ \A n \in Files : dir[n].id \in 1..Len(answers)
    BY FidoFacts, FidoForms DEF FidoInv, FidoTypes
  <1>5. CASE FilesStay \/ FileRenamed
    <2>1. AllIds' = AllIds /\ answers' = answers
      BY <1>5 DEF FilesStay, FileRenamed, SameIds, AllIds
    <2>2. IdList' = IdList
      BY <1>2, <1>3, <2>1, RisesOnce
    <2> QED BY <1>1, <2>1, <2>2 DEF List!vars
  <1>6. CASE FileAdded
    <2> DEFINE new == Len(answers) + 1
    <2>1. PICK k \in 1..MaxMsgno :
            /\ Files' = Files \cup {k} /\ \A n \in Files : n < k
            /\ SameIds(Files) /\ dir'[k].id = new /\ Len(answers') = new
      BY <1>6 DEF FileAdded
    <2>2. AllIds' = AllIds \cup {new} /\ new \in Nat /\ \A n \in AllIds : n < new
      <3>1. AllIds' = AllIds \cup {new}
        BY <2>1 DEF AllIds, SameIds
      <3>2. \A n \in AllIds : n \in 1..Len(answers)
        BY <1>4 DEF AllIds
      <3> QED BY <1>4, <3>1, <3>2
    <2> HIDE DEF new
    <2>3. Rises(Append(IdList, new), AllIds \cup {new})
      BY <1>2, <2>2, AppendRises
    <2>4. IdList' = Append(IdList, new)
      BY <1>3, <2>2, <2>3, RisesOnce
    <2>5. AsList(Append(IdList, new)) = Append(AsList(IdList), [msgno |-> new, by |-> "anyone"])
      BY <1>2, <2>2, AsListAppend
    <2>6. list' = Append(list, [msgno |-> Len(answers) + 1, by |-> "anyone"])
      BY <1>1, <2>4, <2>5 DEF new
    <2>7. List!Post
      BY <2>1, <2>6 DEF List!Post, new
    <2> QED BY <2>7 DEF List!Next
  <1>7. CASE FileRemoved
    <2>1. PICK n \in Files : Files' = Files \ {n} /\ SameIds(Files')
      BY <1>7 DEF FileRemoved
    <2>2. AllIds' = AllIds \ {dir[n].id} /\ dir[n].id \in AllIds
      <3>1. \A m \in Files : m # n => dir[m].id # dir[n].id
        <4> SUFFICES ASSUME NEW m \in Files, m # n PROVE dir[m].id # dir[n].id
          OBVIOUS
        <4>1. m < n \/ n < m
          BY <1>4
        <4>2. dir[m].id < dir[n].id \/ dir[n].id < dir[m].id
          BY <4>1 DEF OrderInv
        <4>3. dir[m].id \in Nat /\ dir[n].id \in Nat
          BY <1>4
        <4> QED BY <4>2, <4>3
      <3> QED BY <2>1, <3>1 DEF AllIds, SameIds
    <2>3. PICK k \in 1..Len(IdList) : IdList[k] = dir[n].id
      BY <1>2, <2>2 DEF Rises, Range
    <2>4. Rises(RemoveAt(IdList, k), AllIds \ {dir[n].id})
      BY <1>2, <2>3, RemoveAtRises, Zenon
    <2>5. IdList' = RemoveAt(IdList, k)
      BY <1>3, <2>2, <2>4, RisesOnce
    <2>6. AsList(RemoveAt(IdList, k)) = RemoveAt(AsList(IdList), k)
      BY <1>2, AsListRemove
    <2>7. list' = RemoveAt(list, k) /\ k \in DOMAIN list
      BY <1>1, <1>2, <2>5, <2>6 DEF AsList
    <2>8. List!Drop
      BY <1>7, <2>7 DEF List!Drop, FileRemoved, List!RemoveAt, RemoveAt
    <2> QED BY <2>8 DEF List!Next
  <1> QED BY <1>5, <1>6, <1>7

LEMMA ListInit == Init => List!Init
  <1> SUFFICES ASSUME Init PROVE List!Init
    OBVIOUS
  <1> DEFINE list  == [i \in 1..Cardinality(Files) |->
                        [msgno |-> dir[InOrder(Files)[i]].id, by |-> "anyone"]]
  <1>1. FidoTypes /\ OrderInv
    BY FidoInit, OrderInit DEF FidoInv
  <1>2. list = AsList(IdList)
    BY <1>1, IdListRises, ListIs DEF Mapped
  <1>3. /\ Rises(IdList, AllIds) /\ IdList \in Seq(Nat) /\ Len(IdList) \in Nat
        /\ DOMAIN IdList = 1..Len(IdList)
    BY <1>1, IdListRises DEF IdListOK
  <1>4. Len(answers) \in Nat /\ \A n \in AllIds : n \in 1..Len(answers)
    BY <1>1, FidoForms DEF FidoTypes, AllIds
  <1>5. \A n \in AllIds : n <= Len(answers)
    BY <1>4
  <1>6. /\ AsList(IdList) \in Seq([msgno : Nat, by : {"anyone"}])
        /\ \A i \in DOMAIN AsList(IdList) : AsList(IdList)[i].msgno <= Len(answers)
        /\ \A i, j \in DOMAIN AsList(IdList) : i < j => AsList(IdList)[i].msgno < AsList(IdList)[j].msgno
    BY <1>3, <1>4, <1>5, AsListFacts
  <1> HIDE DEF list
  <1>8. /\ list \in Seq([msgno : Nat, by : {"anyone"}])
        /\ \A i \in DOMAIN list : list[i].msgno <= Len(answers)
        /\ \A i, j \in DOMAIN list : i < j => list[i].msgno < list[j].msgno
    BY <1>2, <1>6
  <1> QED BY <1>4, <1>8 DEF list, List!Init, List!Message

LEMMA FidoListStep ==
    ASSUME FidoInv, OrderInv, [Next]_vars
    PROVE  FidoInv' /\ OrderInv' /\ [List!Next]_(List!vars)
  <1>1. FilesStay \/ FileAdded \/ FileRemoved \/ FileRenamed
    <2>1. CASE UNCHANGED vars
      BY <2>1 DEF vars, history, FilesStay, SameIds, Files
    <2> QED BY <2>1, FilesStep, AloneAssumption DEF Next
  <1>2. FidoInv'
    BY FidoStep
  <1>3. OrderInv'
    BY <1>1, OrderStep DEF FidoInv
  <1> QED BY <1>1, <1>2, <1>3, ListStep

\* *.MSG: for one program alone the files are a list of messages.  A new one goes
\* to the end, one is removed, and nothing else, renumbering in the middle of
\* its renames included, changes what is in it or its order.
THEOREM FidoIsList == Spec => ListImplemented
  <1>1. FidoInv /\ OrderInv /\ [Next]_vars => FidoInv' /\ OrderInv' /\ [List!Next]_(List!vars)
    BY FidoListStep
  <1>2. Init => FidoInv /\ OrderInv /\ List!Init
    BY FidoInit, OrderInit, ListInit
  <1> QED BY <1>1, <1>2, PTL DEF Spec, ListImplemented, List!Spec

-----------------------------------------------------------------------------
(***************************************************************************)
(* The messages that a message answers, directly or through others: a      *)
(* recursive function on what each message answers.                        *)
(***************************************************************************)
UpTo(a, n, g) == g = [i \in 0..n |-> IF i = 0 THEN {} ELSE {a[i]} \cup g[a[i]]]

AncestorsIn(a, id) ==
    LET up[i \in 0..Len(a)] == IF i = 0 THEN {} ELSE {a[i]} \cup up[a[i]]
    IN  up[id] \ {0}

\* A message answers an earlier one, or none.
Earlier(a) == a \in Seq(Nat) /\ \A i \in 1..Len(a) : a[i] \in 0..(i - 1)

LEMMA UpFacts ==
    ASSUME NEW a, NEW n \in Nat, NEW g, UpTo(a, n, g)
    PROVE  g[0] = {} /\ \A i \in 1..n : g[i] = {a[i]} \cup g[a[i]]
  <1>1. g = [i \in 0..n |-> IF i = 0 THEN {} ELSE {a[i]} \cup g[a[i]]]
    BY DEF UpTo
  <1>2. \A i \in 0..n : g[i] = IF i = 0 THEN {} ELSE {a[i]} \cup g[a[i]]
    BY <1>1, Zenon
  <1>3. 0 \in 0..n /\ \A i \in 1..n : i \in 0..n /\ i # 0
    OBVIOUS
  <1> QED BY <1>2, <1>3

LEMMA UpExists ==
    ASSUME NEW a, Earlier(a)
    PROVE  \E g : UpTo(a, Len(a), g)
  <1> DEFINE S == {n \in Nat : n <= Len(a) => \E g : UpTo(a, n, g)}
  <1>1. 0 \in S
    <2>1. UpTo(a, 0, [i \in 0..0 |-> {}])
      BY DEF UpTo
    <2> QED BY <2>1
  <1>2. ASSUME NEW n \in Nat, n \in S PROVE n + 1 \in S
    <2> SUFFICES ASSUME n + 1 <= Len(a) PROVE \E g : UpTo(a, n + 1, g)
      OBVIOUS
    <2>1. n <= Len(a) /\ n + 1 \in 1..Len(a) /\ Len(a) \in Nat
      BY DEF Earlier
    <2>2. PICK g : UpTo(a, n, g)
      BY <1>2, <2>1
    <2>3. g[0] = {} /\ \A i \in 1..n : g[i] = {a[i]} \cup g[a[i]]
      BY <2>2, UpFacts
    <2> DEFINE h == [i \in 0..(n + 1) |-> IF i = n + 1 THEN {a[i]} \cup g[a[i]] ELSE g[i]]
    <2>4. \A i \in 1..(n + 1) : a[i] \in 0..(i - 1) /\ a[i] \in 0..(n + 1) /\ a[i] # n + 1
      BY <2>1 DEF Earlier
    <2>5. ASSUME NEW i \in 0..(n + 1)
          PROVE  h[i] = IF i = 0 THEN {} ELSE {a[i]} \cup h[a[i]]
      <3>1. CASE i = 0
        BY <2>3, <3>1
      <3>2. CASE i # 0
        <4>1. i \in 1..(n + 1)
          BY <3>2
        <4>2. h[a[i]] = g[a[i]]
          BY <2>4, <4>1
        <4>3. CASE i = n + 1
          BY <3>2, <4>2, <4>3
        <4>4. CASE i # n + 1
          <5>1. i \in 1..n
            BY <4>1, <4>4
          <5> QED BY <2>3, <3>2, <4>2, <4>4, <5>1
        <4> QED BY <4>3, <4>4
      <3> QED BY <3>1, <3>2
    <2>6. h = [i \in 0..(n + 1) |-> h[i]]
      OBVIOUS
    <2> HIDE DEF h
    <2>7. UpTo(a, n + 1, h)
      BY <2>5, <2>6 DEF UpTo
    <2> QED BY <2>7
  <1>3. Nat \subseteq S
    <2> HIDE DEF S
    <2> QED BY <1>1, <1>2, Induction
  <1>4. Len(a) \in Nat
    BY DEF Earlier
  <1> QED BY <1>3, <1>4

LEMMA AncestorsAre ==
    ASSUME NEW a, Earlier(a)
    PROVE  \E g : UpTo(a, Len(a), g) /\ \A id \in 0..Len(a) : AncestorsIn(a, id) = g[id] \ {0}
  <1> DEFINE up == CHOOSE g : g = [i \in 0..Len(a) |-> IF i = 0 THEN {} ELSE {a[i]} \cup g[a[i]]]
  <1>1. \E g : g = [i \in 0..Len(a) |-> IF i = 0 THEN {} ELSE {a[i]} \cup g[a[i]]]
    BY UpExists DEF UpTo
  <1>2. up = [i \in 0..Len(a) |-> IF i = 0 THEN {} ELSE {a[i]} \cup up[a[i]]]
    BY <1>1, Zenon
  <1>3. \A id \in 0..Len(a) : AncestorsIn(a, id) = up[id] \ {0}
    BY Zenon DEF AncestorsIn
  <1>4. UpTo(a, Len(a), up)
    BY <1>2, Zenon DEF UpTo
  <1> QED BY <1>3, <1>4

\* Two such functions agree where what they are made of does.
Alike(a, b, n) == \A i \in 1..n : a[i] = b[i] /\ a[i] \in 0..(i - 1)

LEMMA UpAgree ==
    ASSUME NEW a, NEW b, NEW n \in Nat, NEW m \in Nat, n <= m, NEW g, NEW h,
           UpTo(a, n, g), UpTo(b, m, h), Alike(a, b, n)
    PROVE  \A i \in 0..n : g[i] = h[i]
  <1> USE DEF Alike
  <1> DEFINE S == {k \in Nat : \A i \in 0..k : i <= n => g[i] = h[i]}
  <1>1. /\ g[0] = {} /\ \A i \in 1..n : g[i] = {a[i]} \cup g[a[i]]
        /\ h[0] = {} /\ \A i \in 1..m : h[i] = {b[i]} \cup h[b[i]]
    BY UpFacts
  <1>2. 0 \in S
    <2>1. \A i \in 0..0 : i = 0
      OBVIOUS
    <2>2. \A i \in 0..0 : g[i] = h[i]
      BY <1>1, <2>1, Zenon
    <2> QED BY <2>2
  <1>3. ASSUME NEW k \in Nat, k \in S PROVE k + 1 \in S
    <2> SUFFICES ASSUME NEW i \in 0..(k + 1), i <= n PROVE g[i] = h[i]
      OBVIOUS
    <2>1. CASE i \in 0..k
      BY <1>3, <2>1
    <2>2. CASE i \notin 0..k
      <3>1. i = k + 1 /\ i \in 1..n /\ i \in 1..m
        BY <2>2
      <3>2. a[i] = b[i] /\ a[i] \in 0..k /\ a[i] <= n
        BY <3>1
      <3>3. g[a[i]] = h[a[i]]
        BY <1>3, <3>2
      <3>4. g[i] = {a[i]} \cup g[a[i]] /\ h[i] = {b[i]} \cup h[b[i]]
        BY <1>1, <3>1
      <3> QED BY <3>2, <3>3, <3>4, Zenon
    <2> QED BY <2>1, <2>2
  <1>4. Nat \subseteq S
    <2> HIDE DEF S
    <2> QED BY <1>2, <1>3, Induction
  <1> QED BY <1>4

\* What the messages answer that a message answers, it answers too.
LEMMA UpThrough ==
    ASSUME NEW a, NEW n \in Nat, NEW g, UpTo(a, n, g),
           \A i \in 1..n : a[i] \in 0..(i - 1)
    PROVE  \A c \in 0..n : \A b \in g[c] : g[b] \subseteq g[c]
  <1> DEFINE S == {k \in Nat : \A c \in 0..k : c <= n => \A b \in g[c] : g[b] \subseteq g[c]}
  <1>1. g[0] = {} /\ \A i \in 1..n : g[i] = {a[i]} \cup g[a[i]]
    BY UpFacts
  <1>2. 0 \in S
    BY <1>1
  <1>3. ASSUME NEW k \in Nat, k \in S PROVE k + 1 \in S
    <2> SUFFICES ASSUME NEW c \in 0..(k + 1), c <= n, NEW b \in g[c] PROVE g[b] \subseteq g[c]
      OBVIOUS
    <2>1. CASE c \in 0..k
      BY <1>3, <2>1
    <2>2. CASE c \notin 0..k
      <3>1. c = k + 1 /\ c \in 1..n
        BY <2>2
      <3>2. g[c] = {a[c]} \cup g[a[c]] /\ a[c] \in 0..k /\ a[c] <= n
        BY <1>1, <3>1
      <3>3. CASE b = a[c]
        BY <3>2, <3>3
      <3>4. CASE b \in g[a[c]]
        BY <1>3, <3>2, <3>4
      <3> QED BY <3>2, <3>3, <3>4
    <2> QED BY <2>1, <2>2
  <1>4. Nat \subseteq S
    <2> HIDE DEF S
    <2> QED BY <1>2, <1>3, Induction
  <1> QED BY <1>4

LEMMA AncestorsFacts ==
    ASSUME NEW a, Earlier(a)
    PROVE  /\ \A i \in 1..Len(a) : a[i] # 0 => a[i] \in AncestorsIn(a, i)
           /\ \A c, b \in 1..Len(a) : b \in AncestorsIn(a, c) =>
                    AncestorsIn(a, b) \subseteq AncestorsIn(a, c)
  <1>1. PICK g : UpTo(a, Len(a), g) /\ \A id \in 0..Len(a) : AncestorsIn(a, id) = g[id] \ {0}
    BY AncestorsAre
  <1>2. Len(a) \in Nat /\ \A i \in 1..Len(a) : a[i] \in 0..(i - 1) /\ i \in 0..Len(a)
    BY DEF Earlier
  <1>3. \A i \in 1..Len(a) : g[i] = {a[i]} \cup g[a[i]]
    BY <1>1, <1>2, UpFacts
  <1>4. \A c \in 0..Len(a) : \A b \in g[c] : g[b] \subseteq g[c]
    BY <1>1, <1>2, UpThrough
  <1>5. ASSUME NEW i \in 1..Len(a), a[i] # 0 PROVE a[i] \in AncestorsIn(a, i)
    BY <1>1, <1>2, <1>3, <1>5
  <1>6. ASSUME NEW c \in 1..Len(a), NEW b \in 1..Len(a), b \in AncestorsIn(a, c)
        PROVE  AncestorsIn(a, b) \subseteq AncestorsIn(a, c)
    <2>1. c \in 0..Len(a) /\ b \in 0..Len(a)
      BY <1>2
    <2>2. AncestorsIn(a, b) = g[b] \ {0} /\ AncestorsIn(a, c) = g[c] \ {0}
      BY <1>1, <2>1
    <2>3. g[b] \subseteq g[c]
      BY <1>4, <1>6, <2>1, <2>2
    <2> QED BY <2>2, <2>3
  <1> QED BY <1>5, <1>6

\* A message more changes nothing for the others.
LEMMA AncestorsStay ==
    ASSUME NEW a, Earlier(a), NEW x \in 0..Len(a)
    PROVE  /\ Earlier(Append(a, x))
           /\ \A id \in 1..Len(a) : AncestorsIn(Append(a, x), id) = AncestorsIn(a, id)
  <1> DEFINE b == Append(a, x)
  <1>1. a \in Seq(Nat) /\ Len(a) \in Nat /\ \A i \in 1..Len(a) : a[i] \in 0..(i - 1)
    BY DEF Earlier
  <1>2. PICK n \in Nat : n = Len(a)
    BY <1>1
  <1>3. x \in Nat /\ x <= n
    BY <1>2
  <1>4. b \in Seq(Nat) /\ Len(b) = n + 1 /\ b[n + 1] = x
    BY <1>1, <1>2, <1>3, AppendProperties
  <1>5. \A i \in 1..n : b[i] = a[i] /\ a[i] \in 0..(i - 1)
    BY <1>1, <1>2, <1>3, AppendProperties
  <1> HIDE DEF b
  <1>6. \A i \in 1..(n + 1) : b[i] \in 0..(i - 1)
    <2> SUFFICES ASSUME NEW i \in 1..(n + 1) PROVE b[i] \in 0..(i - 1)
      OBVIOUS
    <2>1. CASE i \in 1..n
      BY <1>5, <2>1
    <2>2. CASE i \notin 1..n
      <3>1. i = n + 1
        BY <2>2
      <3> QED BY <1>3, <1>4, <3>1
    <2> QED BY <2>1, <2>2
  <1>7. Earlier(b)
    BY <1>4, <1>6 DEF Earlier
  <1>8. PICK g : UpTo(a, n, g) /\ \A id \in 0..n : AncestorsIn(a, id) = g[id] \ {0}
    BY <1>2, AncestorsAre
  <1>9. PICK h : UpTo(b, n + 1, h) /\ \A id \in 0..(n + 1) : AncestorsIn(b, id) = h[id] \ {0}
    BY <1>4, <1>7, AncestorsAre
  <1>10. \A i \in 0..n : g[i] = h[i]
    <2>1. PICK m \in Nat : m = n + 1
      OBVIOUS
    <2>2. n <= m
      BY <2>1
    <2>3. UpTo(b, m, h)
      BY <1>9, <2>1, Zenon
    <2>4. Alike(a, b, n)
      BY <1>5 DEF Alike
    <2> QED BY <1>8, <2>2, <2>3, <2>4, UpAgree
  <1>11. \A id \in 1..n : id \in 0..n /\ id \in 0..(n + 1)
    OBVIOUS
  <1>12. \A id \in 1..n : AncestorsIn(b, id) = AncestorsIn(a, id)
    BY <1>8, <1>9, <1>10, <1>11
  <1> QED BY <1>2, <1>7, <1>12 DEF b

LEMMA AncestorsSame == ASSUME NEW id PROVE Ancestors(id) = AncestorsIn(answers, id)
  BY DEF Ancestors, AncestorsIn
-----------------------------------------------------------------------------
\* A message answers one with a lower number, in its own thread if it is there;
\* and the reply that it is linked to answers it.
LinkTo(h, n)    == /\ h.to # 0 => h.to < n
                   /\ h.to \in Files => dir[h.to].id \in AncestorsIn(answers, h.id)
LinkFirst(h, n) == h.first # 0 => h.first \in Files /\ dir[h.first].to = n

\* The original of the message shown is linked to that one.
Backed == Here.hdr.to \in Files /\ dir[Here.hdr.to].first = Here.no

\* The headers that are mended when the message shown is deleted.
Mended ==
    LET to == Here.hdr.to  first == Here.hdr.first
    IN  /\ Own.down = IF Backed THEN [no |-> to, hdr |-> [dir[to] EXCEPT !.first = first]]
                                ELSE NoMsg
        /\ Own.up = IF first = 0 THEN NoMsg
                    ELSE [no  |-> first,
                          hdr |-> [dir[first] EXCEPT !.to = IF Backed THEN to ELSE 0]]

\* In the file that is about to be removed the link may lead astray; what was
\* loaded may be linked to an earlier reply than the file is.
LinkFiles == \A n \in Files : /\ LinkTo(dir[n], n)
                              /\ ~ (Now = "remove" /\ n = Here.no) => LinkFirst(dir[n], n)
LinkHere  == Here.no # 0 => LinkFirst(Here.hdr, Here.no) /\ Here.hdr.to = dir[Here.no].to

LinkLocals ==
    /\ Now \in Waits \cup {"splice"} => LinkHere
    /\ Now = "original" => Own.no \in Files /\ dir[Own.no].to = Own.to
    /\ Now = "link" => /\ Own.no \in Files /\ dir[Own.no].to = Own.up.no
                       /\ Own.up.no \in Files /\ Own.up.hdr = dir[Own.up.no]
    /\ Now = "splice" => Mended
    /\ Now = "remove" => \A n \in Files : dir[n].first = Here.no => n = Here.no

LinkInv == Earlier(answers) /\ (~renumbered => LinkFiles /\ LinkLocals)

LEMMA LinkInit == Init => LinkInv
  <1> SUFFICES ASSUME Init PROVE LinkInv
    OBVIOUS
  <1>1. FidoInv
    BY FidoInit
  <1>2. Now = "closed"
    BY <1>1, AloneAssumption, FidoFacts DEF FidoInv, Init, Now
  <1>3. \A n \in Files : dir[n].to = 0 /\ dir[n].first = 0
    <2> SUFFICES ASSUME NEW n \in Files PROVE dir[n].to = 0 /\ dir[n].first = 0
      OBVIOUS
    <2>1. n \in 1..MaxMsgno /\ dir[n] # NoFile
          /\ dir[n] = (IF n \in FirstNos THEN Message(First(n), 0, 0) ELSE NoFile)
      BY DEF Init, Files
    <2> QED BY <2>1 DEF Message
  <1>4. 0 \notin Files
    BY <1>1, FidoFacts DEF FidoInv
  <1>5. Earlier(answers)
    <2>1. answers \in Seq(Nat)
      BY <1>1, FidoForms DEF FidoInv
    <2>2. DOMAIN answers = 1..Len(answers)
      BY <1>1, FidoForms DEF FidoInv
    <2>3. \A i \in DOMAIN answers : answers[i] = 0
      BY DEF Init
    <2>4. \A i \in 1..Len(answers) : answers[i] = 0 /\ 0 \in 0..(i - 1)
      BY <2>2, <2>3
    <2> QED BY <2>1, <2>4 DEF Earlier
  <1>6. LinkFiles
    BY <1>2, <1>3, <1>4 DEF LinkFiles, LinkTo, LinkFirst
  <1>7. LinkLocals
    BY <1>2 DEF LinkLocals, Waits
  <1> QED BY <1>5, <1>6, <1>7 DEF LinkInv

\* A step that leaves the files alone.
LEMMA LinkQuiet ==
    ASSUME LinkInv, UNCHANGED <<dir, answers, renumbered>>, Now # "remove", Now' # "remove",
           ~renumbered => LinkLocals'
    PROVE  LinkInv'
  <1>1. Files' = Files
    BY DEF Files
  <1>2. Earlier(answers)'
    BY DEF LinkInv
  <1>3. ~renumbered => LinkFiles'
    BY <1>1 DEF LinkInv, LinkFiles, LinkTo, LinkFirst
  <1> QED BY <1>2, <1>3 DEF LinkInv

LEMMA LinkOpens ==
    ASSUME FidoInv, LinkInv, Open(golded) \/ Close(golded) \/ Suspend(golded)
    PROVE  LinkInv'
  <1>1. FidoTypes /\ FidoLocals
    BY DEF FidoInv
  <1>2. UNCHANGED <<dir, op, answers, renumbered>> /\ Now \in {"closed", "idle"}
    BY DEF Open, Close, Suspend, history, Now
  <1>3. Now' \in {"closed", "idle"} /\ (Now' = "idle" => Here' = Here)
    BY <1>1, <1>2, FidoForms, FidoFacts DEF Open, Close, Suspend, Now, Here
  <1>4. Files' = Files
    BY <1>2 DEF Files
  <1>5. ~renumbered => LinkLocals'
    <2>1. ~renumbered /\ Now' = "idle" => LinkHere'
      BY <1>1, <1>2, <1>3, <1>4 DEF LinkInv, LinkLocals, LinkHere, LinkFirst, FidoLocals, Waits
    <2> QED BY <1>3, <2>1 DEF LinkLocals, Waits
  <1> QED BY <1>2, <1>3, <1>5, LinkQuiet

LEMMA LinkRead == ASSUME FidoInv, LinkInv, Read(golded) PROVE LinkInv'
  <1>1. FidoTypes
    BY DEF FidoInv
  <1>2. /\ Now = "idle" /\ UNCHANGED <<dir, pc, answers, renumbered>>
        /\ \E n : msg' = [msg EXCEPT ![golded] =
                              IF n \in Files THEN [no |-> n, hdr |-> dir[n]] ELSE NoMsg]
    BY DEF Read, Now
  <1>3. Now' = "idle" /\ Files' = Files
    BY <1>2 DEF Now, Files
  <1>4. Here' = NoMsg \/ \E n \in Files : Here' = [no |-> n, hdr |-> dir[n]]
    BY <1>1, <1>2, FidoForms DEF Here
  <1>5. ~renumbered => LinkHere'
    <2>1. NoMsg.no = 0
      BY DEF NoMsg
    <2> QED BY <1>2, <1>3, <1>4, <2>1 DEF LinkInv, LinkFiles, LinkHere, LinkFirst
  <1> QED BY <1>2, <1>3, <1>5, LinkQuiet DEF LinkLocals, Waits

LEMMA LinkPost == ASSUME FidoInv, LinkInv, NEW mode, Post(golded, mode) PROVE LinkInv'
  <1>1. FidoTypes
    BY DEF FidoInv
  <1>2. /\ Now = "idle" /\ UNCHANGED <<dir, msg, answers, renumbered>>
        /\ pc' = [pc EXCEPT ![golded] = "create"]
    BY DEF Post, history, Now
  <1>3. Now' = "create" /\ Here' = Here /\ Files' = Files
    BY <1>1, <1>2, FidoForms, FidoFacts DEF Now, Here, Files
  <1>4. ~renumbered => LinkHere'
    BY <1>2, <1>3 DEF LinkInv, LinkLocals, LinkHere, LinkFirst, Waits
  <1> QED BY <1>2, <1>3, <1>4, LinkQuiet DEF LinkLocals, Waits

LEMMA LinkLoads == ASSUME FidoInv, LinkInv, LoadOriginal(golded) PROVE LinkInv'
  <1>1. FidoTypes /\ FidoLocals
    BY DEF FidoInv
  <1> DEFINE m == [no |-> Own.to, hdr |-> dir[Own.to]]
  <1>2. Now = "original" /\ Own.to \in Files
    BY <1>1 DEF LoadOriginal, Now, FidoLocals
  <1>3. /\ op' = [op EXCEPT ![golded].up = m] /\ pc' = [pc EXCEPT ![golded] = "link"]
        /\ UNCHANGED <<dir, msg, answers, renumbered>>
    BY <1>2 DEF LoadOriginal, history, Own
  <1>4. Now' = "link" /\ Here' = Here /\ Files' = Files /\ Own' = [Own EXCEPT !.up = m]
    BY <1>1, <1>3, FidoForms, FidoFacts DEF Now, Here, Own, Files
  <1>5. Own'.no = Own.no /\ Own'.up = m
    <2> HIDE DEF m
    <2> QED BY <1>1, <1>4, FidoForms DEF FidoOps
  <1>6. ~renumbered => LinkLocals'
    <2>1. ~renumbered => LinkHere'
      BY <1>2, <1>3, <1>4 DEF LinkInv, LinkLocals, LinkHere, LinkFirst, Waits
    <2>2. ~renumbered => Own.no \in Files /\ dir[Own.no].to = Own.to
      BY <1>2 DEF LinkInv, LinkLocals
    <2> QED BY <1>2, <1>3, <1>4, <1>5, <2>1, <2>2 DEF LinkLocals
  <1> QED BY <1>2, <1>3, <1>4, <1>6, LinkQuiet

\* What is loaded stays as well linked, if no message answers another.
LEMMA LinkHereStays ==
    ASSUME LinkHere, Here' = Here, Here.no # 0 => Here.no \in Files, Files \subseteq Files',
           \A n \in Files : dir'[n].to = dir[n].to
    PROVE  LinkHere'
  BY DEF LinkHere, LinkFirst

LEMMA LinkSaves ==
    ASSUME FidoInv, LinkInv, LinkOriginal(golded) \/ SaveHdr(golded)
    PROVE  LinkInv'
  <1>1. FidoTypes /\ FidoLocals /\ FilesStay
    BY FidoSaves DEF FidoInv
  <1>2. UNCHANGED <<msg, op, renumbered>> /\ Now \in {"link", "idle"}
    BY DEF LinkOriginal, SaveHdr, history, Now
  <1>3. Now' = "idle" /\ Here' = Here /\ Own' = Own
    BY <1>1, <1>2, FidoForms, FidoFacts DEF LinkOriginal, SaveHdr, Now, Here, Own
  <1>4. Earlier(answers)'
    BY <1>1 DEF FilesStay, LinkInv
  <1> SUFFICES ASSUME ~renumbered PROVE LinkFiles' /\ LinkLocals'
    BY <1>2, <1>4 DEF LinkInv
  <1>5. LinkFiles /\ LinkLocals
    BY DEF LinkInv
  <1>6. PICK n \in Files, h \in Messages :
        dir' = [dir EXCEPT ![n] = h] /\ h.to = dir[n].to /\ LinkFirst(h, n)
    <2>1. CASE LinkOriginal(golded)
      <3>1. Now = "link" /\ dir' = [dir EXCEPT ![Own.up.no] = [Own.up.hdr EXCEPT !.first = Own.no]]
        BY <2>1 DEF LinkOriginal, Now, Own
      <3>2. /\ Own.no \in Files /\ dir[Own.no].to = Own.up.no
            /\ Own.up.no \in Files /\ Own.up.hdr = dir[Own.up.no]
        BY <1>5, <3>1 DEF LinkLocals
      <3>3. dir[Own.up.no] \in Messages /\ Own.no \in Nat
        BY <1>1, <3>2, FidoFacts
      <3> DEFINE h == [Own.up.hdr EXCEPT !.first = Own.no]
      <3>4. h \in Messages /\ h.to = dir[Own.up.no].to /\ h.first = Own.no
        BY <3>2, <3>3 DEF Messages
      <3> HIDE DEF h
      <3>5. LinkFirst(h, Own.up.no)
        BY <3>2, <3>4 DEF LinkFirst
      <3>6. dir' = [dir EXCEPT ![Own.up.no] = h]
        BY <3>1 DEF h
      <3> QED BY <3>2, <3>4, <3>5, <3>6
    <2>2. CASE SaveHdr(golded)
      <3>1. Now = "idle" /\ Here.no # 0 /\ dir' = [dir EXCEPT ![Here.no] = Here.hdr]
        BY <2>2 DEF SaveHdr, Now, Here
      <3>2. Here.no \in Files /\ Here.hdr \in Messages
        BY <1>1, <3>1, FidoFacts DEF FidoLocals, Known, Whole, Waits, Loaded
      <3>3. LinkFirst(Here.hdr, Here.no) /\ Here.hdr.to = dir[Here.no].to
        BY <1>5, <3>1 DEF LinkLocals, LinkHere, Waits
      <3> QED BY <3>1, <3>2, <3>3
    <2> QED BY <2>1, <2>2
  <1>7. /\ Files' = Files /\ answers' = answers
        /\ \A k \in Files : /\ dir'[k].to = dir[k].to /\ dir'[k].id = dir[k].id
                            /\ dir'[k] = dir[k] \/ (k = n /\ dir'[k] = h)
    <2>1. \A k \in Files : k \in DOMAIN dir
      BY DEF Files
    <2> QED BY <1>1, <1>6, <2>1 DEF FilesStay, SameIds
  <1>8. LinkFiles'
    <2> SUFFICES ASSUME NEW k \in Files
                 PROVE  LinkTo(dir[k], k)' /\ LinkFirst(dir[k], k)'
      BY <1>7 DEF LinkFiles
    <2>1. LinkTo(dir[k], k) /\ LinkFirst(dir[k], k)
      BY <1>2, <1>5 DEF LinkFiles
    <2>2. LinkTo(dir[k], k)'
      BY <1>7, <2>1 DEF LinkTo
    <2>3. LinkFirst(dir[k], k)'
      BY <1>6, <1>7, <2>1 DEF LinkFirst
    <2> QED BY <2>2, <2>3
  <1>9. LinkHere'
    <2>1. LinkHere /\ (Here.no # 0 => Here.no \in Files)
      BY <1>1, <1>2, <1>5 DEF LinkLocals, Waits, Whole, FidoLocals, Known
    <2> QED BY <1>3, <1>7, <2>1, LinkHereStays
  <1> QED BY <1>3, <1>8, <1>9 DEF LinkLocals, Waits

\* The reply comes after all messages there are.
LEMMA LinkCreate == ASSUME FidoInv, LinkInv, Create(golded) PROVE LinkInv'
  <1>1. FidoTypes /\ FidoLocals
    BY DEF FidoInv
  <1>0. PICK new, k, to, by :
        /\ new = Len(answers) + 1 /\ k = Own.no /\ to = Own.to
        /\ by = IF to = 0 THEN 0 ELSE Here.hdr.id
    OBVIOUS
  <1>2. /\ Now = "create" /\ dir' = [dir EXCEPT ![k] = Message(new, to, 0)]
        /\ answers' = Append(answers, by)
        /\ pc' = [pc EXCEPT ![golded] = IF ToReln(Listed, Own.to) # 0 THEN "original" ELSE "idle"]
        /\ UNCHANGED <<msg, op, renumbered>>
    BY <1>0 DEF Create, Now, Listed, Here, Own
  <1>3. /\ Known(Here) /\ k \in 1..MaxMsgno /\ to \in {0, Here.no} /\ \A n \in Files : n < k
    BY <1>0, <1>1, <1>2, FidoFacts DEF FidoLocals, Whole, Waits
  <1>4. /\ Now' \in {"original", "idle"} /\ Here' = Here /\ Own' = Own
    BY <1>1, <1>2, FidoForms, FidoFacts DEF Now, Here, Own
  <1>5. PICK len \in Nat : len = Len(answers)
    BY <1>1, FidoForms
  <1>6. /\ Files \subseteq 1..MaxMsgno /\ MaxMsgno \in Nat /\ 0 \notin Files /\ k \notin Files
        /\ dir \in [1..MaxMsgno -> Messages] /\ \A n \in Files : dir[n].id \in 1..len
    <2>1. dir \in [1..MaxMsgno -> Messages] /\ \A n \in Files : dir[n].id \in DOMAIN answers
      BY <1>1 DEF FidoTypes, TypeOK
    <2>2. \A n \in Files : dir[n].id \in 1..len
      BY <1>1, <1>5, <2>1, FidoForms
    <2>3. Files \subseteq 1..MaxMsgno /\ MaxMsgno \in Nat
      BY <1>1, FidoFacts
    <2>4. k \notin Files
      BY <1>3, <2>3
    <2>5. 0 \notin Files
      BY <2>3
    <2> QED BY <2>1, <2>2, <2>3, <2>4, <2>5
  <1>7. to # 0 => to \in Files /\ to < k /\ dir[to].id = by /\ by \in 1..len
    BY <1>0, <1>3, <1>6 DEF Known
  <1>8. by \in 0..len /\ (to = 0 => by = 0)
    BY <1>0, <1>5, <1>7
  <1>9. /\ Earlier(answers') /\ len + 1 = Len(answers') /\ answers'[len + 1] = by
        /\ \A id \in 1..len : AncestorsIn(answers', id) = AncestorsIn(answers, id)
    <2>1. Earlier(answers) /\ answers \in Seq(Nat) /\ by \in Nat /\ by \in 0..Len(answers)
      BY <1>5, <1>8 DEF LinkInv, Earlier
    <2>2. Len(answers') = Len(answers) + 1 /\ answers'[Len(answers) + 1] = by
      BY <1>2, <2>1, AppendProperties
    <2> QED BY <1>2, <1>5, <2>1, <2>2, AncestorsStay
  <1> SUFFICES ASSUME ~renumbered PROVE LinkFiles' /\ LinkLocals'
    BY <1>2, <1>9 DEF LinkInv
  <1>10. LinkFiles /\ LinkLocals
    BY DEF LinkInv
  <1>11. /\ dir'[k] = Message(new, to, 0) /\ dir'[k].to = to /\ dir'[k].id = new
         /\ dir'[k].first = 0 /\ \A n \in Files : dir'[n] = dir[n]
    <2>1. dir'[k] = Message(new, to, 0)
      BY <1>2, <1>3, <1>6
    <2>2. \A n \in Files : dir'[n] = dir[n]
      BY <1>2, <1>6
    <2> QED BY <2>1, <2>2 DEF Message
  <1>12. Files' = Files \cup {k}
    <2>1. Message(new, to, 0) # NoFile
      BY <1>0, <1>5 DEF Message, NoFile
    <2>2. DOMAIN dir' = 1..MaxMsgno /\ \A n \in 1..MaxMsgno : n # k => dir'[n] = dir[n]
      BY <1>2, <1>6
    <2>3. DOMAIN dir = 1..MaxMsgno
      BY <1>6
    <2> QED BY <1>3, <1>11, <2>1, <2>2, <2>3 DEF Files
  <1>13. LinkFiles'
    <2>1. ASSUME NEW n \in Files PROVE LinkTo(dir[n], n)' /\ LinkFirst(dir[n], n)'
      <3>1. LinkTo(dir[n], n) /\ LinkFirst(dir[n], n) /\ n < k /\ dir'[n] = dir[n]
            /\ dir[n].id \in 1..len /\ n \in Nat /\ k \in Nat
        BY <1>2, <1>3, <1>6, <1>10, <1>11 DEF LinkFiles
      <3>2. dir[n].to # k
        <4>1. dir[n].to = k => k < n /\ k # 0
          BY <1>3, <3>1 DEF LinkTo
        <4> QED BY <3>1, <4>1
      <3>3. dir[n].to \in Files' => dir'[dir[n].to].id \in AncestorsIn(answers', dir[n].id)
        BY <1>9, <1>11, <1>12, <3>1, <3>2 DEF LinkTo
      <3>4. LinkTo(dir[n], n)'
        BY <3>1, <3>3 DEF LinkTo
      <3>5. LinkFirst(dir[n], n)'
        BY <1>11, <1>12, <3>1 DEF LinkFirst
      <3> QED BY <3>4, <3>5
    <2>2. LinkTo(dir[k], k)'
      <3>1. ASSUME to \in Files' PROVE dir'[to].id \in AncestorsIn(answers', new)
        <4>1. to \in Files /\ to # 0
          <5>1. to # k \/ to = 0
            BY <1>6, <1>7
          <5>2. to # 0
            BY <1>3, <1>6, <1>12, <3>1
          <5> QED BY <1>12, <3>1, <5>1, <5>2
        <4>2. dir'[to].id = answers'[new] /\ answers'[new] # 0 /\ new \in 1..Len(answers')
          <5>1. answers'[new] = by /\ new \in 1..(len + 1)
            BY <1>0, <1>5, <1>9
          <5> QED BY <1>7, <1>9, <1>11, <4>1, <5>1
        <4>3. answers'[new] \in AncestorsIn(answers', new)
          BY <1>9, <4>2, AncestorsFacts
        <4> QED BY <4>2, <4>3
      <3> QED BY <1>7, <1>11, <3>1 DEF LinkTo
    <2>3. LinkFirst(dir[k], k)'
      BY <1>11 DEF LinkFirst
    <2> QED BY <1>12, <2>1, <2>2, <2>3 DEF LinkFiles
  <1>14. LinkLocals'
    <2>1. LinkHere'
      <3>1. LinkHere /\ (Here.no # 0 => Here.no \in Files)
        BY <1>2, <1>3, <1>10 DEF LinkLocals, Waits, Known
      <3> QED BY <1>4, <1>11, <1>12, <3>1, LinkHereStays
    <2>2. Own'.no \in Files' /\ dir'[Own'.no].to = Own'.to
      BY <1>0, <1>4, <1>11, <1>12
    <2> QED BY <1>4, <2>1, <2>2 DEF LinkLocals
  <1> QED BY <1>13, <1>14

\* Looking for a number in the program's list is looking for its file.
LEMMA ListedFiles ==
    ASSUME FidoTypes, Rises(Listed, Files), NEW n
    PROVE  Linked(golded, n) = IF n \in Files THEN [no |-> n, hdr |-> dir[n]] ELSE NoMsg
  <1>1. /\ Listed \in Seq(1..MaxMsgno) /\ DOMAIN Listed = 1..Len(Listed) /\ Range(Listed) = Files
        /\ Len(Listed) \in Nat
    BY FidoFacts DEF Rises
  <1>2. ASSUME n \in Files PROVE ToReln(Listed, n) # 0
    <2>1. PICK i \in DOMAIN Listed : Listed[i] = n
      BY <1>1, <1>2 DEF Range
    <2>2. ToReln(Listed, n) \in DOMAIN Listed
      BY <2>1 DEF ToReln
    <2> QED BY <1>1, <2>2
  <1> QED BY <1>2 DEF Linked, Listed

LEMMA LinkDelete == ASSUME FidoInv, LinkInv, Delete(golded) PROVE LinkInv'
  <1>1. FidoTypes /\ FidoLocals /\ FidoList
    BY DEF FidoInv
  <1> DEFINE mended == Splice(golded)
  <1>2. PICK lread :
        /\ Now = "idle" /\ Here.no # 0
        /\ op' = [op EXCEPT ![golded].lread = lread,
                            ![golded].down = mended.down, ![golded].up = mended.up]
        /\ pc' = [pc EXCEPT ![golded] = "splice"]
        /\ UNCHANGED <<dir, msg, answers, renumbered>>
    BY DEF Delete, history, Now, Here
  <1>3. Now' = "splice" /\ Here' = Here /\ Files' = Files
    BY <1>1, <1>2, FidoForms, FidoFacts DEF Now, Here, Files
  <1>4. Own'.down = mended.down /\ Own'.up = mended.up
    <2>1. Own \in FidoOps /\ DOMAIN op = {golded}
      BY <1>1, FidoForms
    <2> HIDE DEF mended
    <2>2. Own' = [Own EXCEPT !.lread = lread, !.down = mended.down, !.up = mended.up]
      BY <1>2, <2>1 DEF Own
    <2> QED BY <2>1, <2>2 DEF FidoOps
  <1>5. Rises(Listed, Files) /\ 0 \notin Files /\ NoMsg.no = 0
        /\ Here.no \in Files /\ Here.hdr \in Messages
    <2>1. 0 \notin Files
      BY <1>1, FidoFacts
    <2> QED BY <1>1, <1>2, <2>1, FidoFacts DEF FidoList, FidoLocals, Known, Whole, Waits, NoMsg, Loaded
  <1> SUFFICES ASSUME ~renumbered PROVE LinkLocals'
    BY <1>2, <1>3, LinkQuiet
  <1>6. LinkHere /\ LinkFirst(Here.hdr, Here.no)
    BY <1>2 DEF LinkInv, LinkLocals, LinkHere, Waits
  <1>7. Mended'
    <2> DEFINE to     == Here.hdr.to
               first  == Here.hdr.first
               down   == Linked(golded, to)
               up     == Linked(golded, first)
               backed == down.no # 0 /\ down.hdr.first = Here.no
    <2>1. /\ mended.down = IF backed
                           THEN [down EXCEPT !.hdr.first = IF ToReln(Listed, first) # 0 THEN first ELSE 0]
                           ELSE NoMsg
          /\ mended.up = IF up.no # 0 /\ up.hdr.to = Here.no
                         THEN [up EXCEPT !.hdr.to = IF backed THEN down.no ELSE 0] ELSE NoMsg
      BY DEF Splice, Here, Listed
    <2>2. /\ down = IF to \in Files THEN [no |-> to, hdr |-> dir[to]] ELSE NoMsg
          /\ up = IF first \in Files THEN [no |-> first, hdr |-> dir[first]] ELSE NoMsg
      BY <1>1, <1>5, ListedFiles
    <2>3. first = 0 \/ (first \in Files /\ dir[first].to = Here.no)
      BY <1>6 DEF LinkFirst
    <2>4. (IF ToReln(Listed, first) # 0 THEN first ELSE 0) = first
      <3>1. ASSUME first # 0 PROVE ToReln(Listed, first) # 0
        <4>1. up.no # 0
          BY <1>5, <2>2, <2>3, <3>1
        <4> QED BY <1>5, <4>1 DEF Linked, Listed
      <3> QED BY <3>1
    <2> HIDE DEF to, first, down, up
    <2>5. backed <=> to \in Files /\ dir[to].first = Here.no
      BY <1>5, <2>2
    <2>6. mended.down = IF backed THEN [no |-> to, hdr |-> [dir[to] EXCEPT !.first = first]] ELSE NoMsg
      <3>1. mended.down = IF backed THEN [down EXCEPT !.hdr.first = first] ELSE NoMsg
        BY <2>1, <2>4
      <3>2. backed => down = [no |-> to, hdr |-> dir[to]]
        BY <2>2, <2>5
      <3> QED BY <3>1, <3>2
    <2>7. mended.up = IF first = 0 THEN NoMsg
                      ELSE [no |-> first, hdr |-> [dir[first] EXCEPT !.to = IF backed THEN to ELSE 0]]
      <3>1. CASE first = 0
        <4>1. up.no = 0
          BY <1>5, <2>2, <3>1
        <4> QED BY <2>1, <3>1, <4>1
      <3>2. CASE first # 0
        <4>1. up = [no |-> first, hdr |-> dir[first]] /\ up.hdr.to = Here.no
          BY <2>2, <2>3, <3>2
        <4>2. backed => down.no = to
          BY <2>2, <2>5
        <4> HIDE DEF backed
        <4>3. mended.up = [up EXCEPT !.hdr.to = IF backed THEN to ELSE 0]
          BY <2>1, <3>2, <4>1, <4>2
        <4> QED BY <3>2, <4>1, <4>3
      <3> QED BY <3>1, <3>2
    <2>8. backed <=> Backed'
      BY <1>2, <1>3, <2>5 DEF Backed, to
    <2> HIDE DEF mended, backed
    <2> QED BY <1>2, <1>3, <1>4, <2>6, <2>7, <2>8 DEF Mended, to, first
  <1>8. LinkHere'
    BY <1>2, <1>3, <1>6 DEF LinkHere, LinkFirst
  <1> QED BY <1>3, <1>7, <1>8 DEF LinkLocals

\* The mended headers are saved: the reply now answers what the message that is
\* about to be removed answers, and that is linked to the reply.
LEMMA LinkSplice == ASSUME FidoInv, LinkInv, SaveSplice(golded) PROVE LinkInv'
  <1>1. FidoTypes /\ FidoLocals /\ FilesStay
    BY FidoSplice DEF FidoInv
  <1>2. /\ Now = "splice"
        /\ dir' = [n \in DOMAIN dir |->
                    IF n = Own.up.no THEN Own.up.hdr
                    ELSE IF n = Own.down.no THEN Own.down.hdr ELSE dir[n]]
        /\ pc' = [pc EXCEPT ![golded] = "remove"]
        /\ UNCHANGED <<msg, op, renumbered>>
    BY DEF SaveSplice, history, Now, Own
  <1>3. Now' = "remove" /\ Here' = Here
    BY <1>1, <1>2, FidoForms, FidoFacts DEF Now, Here
  <1>4. Files' = Files /\ answers' = answers /\ \A n \in Files : dir'[n].id = dir[n].id
    BY <1>1 DEF FilesStay, SameIds
  <1>5. Earlier(answers)'
    BY <1>4 DEF LinkInv
  <1> SUFFICES ASSUME ~renumbered PROVE LinkFiles' /\ LinkLocals'
    BY <1>2, <1>5 DEF LinkInv
  <1>6. LinkFiles /\ LinkLocals
    BY DEF LinkInv
  <1>0. PICK m, to, first : m = Here.no /\ to = Here.hdr.to /\ first = Here.hdr.first
    OBVIOUS
  <1>7. /\ m \in Files /\ dir[m].to = to /\ LinkFirst(Here.hdr, m) /\ Mended
        /\ Files \subseteq Nat /\ 0 \notin Files /\ DOMAIN dir = 1..MaxMsgno
        /\ Files \subseteq DOMAIN dir /\ \A n \in Files : dir[n] \in Messages
    <2>1. Here.no # 0 /\ Here.no \in Files
      BY <1>1, <1>2 DEF FidoLocals, Known, Whole
    <2>2. Files \subseteq 1..MaxMsgno /\ DOMAIN dir = 1..MaxMsgno /\ \A n \in 1..MaxMsgno : dir[n] \in Messages
      BY <1>1, FidoFacts
    <2>3. Files \subseteq Nat /\ 0 \notin Files
      BY <2>2
    <2> QED BY <1>0, <1>2, <1>6, <2>1, <2>2, <2>3 DEF LinkLocals, LinkHere
  <1>8. \A n \in Files : LinkTo(dir[n], n) /\ LinkFirst(dir[n], n)
    BY <1>2, <1>6 DEF LinkFiles
  <1>9. /\ to # 0 => to < m
        /\ first # 0 => first \in Files /\ dir[first].to = m /\ m < first
    <2>1. to # 0 => to < m
      BY <1>7, <1>8 DEF LinkTo
    <2>2. first # 0 => first \in Files /\ dir[first].to = m
      BY <1>0, <1>7 DEF LinkFirst
    <2>3. first # 0 => m < first
      BY <1>7, <1>8, <2>2 DEF LinkTo
    <2> QED BY <2>1, <2>2, <2>3
  <1>10. \A n \in Files : n \in Int /\ n # 0
    BY <1>7
  <1>11. to # first \/ to = 0
    <2> SUFFICES ASSUME to # 0, to = first PROVE FALSE
      OBVIOUS
    <2>1. to < m /\ m < to /\ m \in Int /\ to \in Int
      BY <1>7, <1>9, <1>10
    <2> QED BY <2>1
  <1> DEFINE newTo == IF Backed THEN to ELSE 0
  <1>12. ASSUME NEW n \in Files
         PROVE  /\ dir'[n].to = IF n = first THEN newTo ELSE dir[n].to
                /\ dir'[n].first = IF n = to /\ Backed THEN first ELSE dir[n].first
    <2>1. /\ Own.down = IF Backed THEN [no |-> to, hdr |-> [dir[to] EXCEPT !.first = first]]
                                  ELSE NoMsg
          /\ Own.up = IF first = 0 THEN NoMsg
                      ELSE [no |-> first, hdr |-> [dir[first] EXCEPT !.to = newTo]]
      BY <1>0, <1>7 DEF Mended
    <2>2. NoMsg.no = 0 /\ n # 0 /\ n \in DOMAIN dir /\ dir[n] \in Messages
      BY <1>7 DEF NoMsg
    <2>3. dir'[n] = IF n = Own.up.no THEN Own.up.hdr
                    ELSE IF n = Own.down.no THEN Own.down.hdr ELSE dir[n]
      BY <1>2, <2>2
    <2> HIDE DEF newTo
    <2>4. CASE n = first
      <3>1. dir'[n] = [dir[n] EXCEPT !.to = newTo]
        BY <2>1, <2>2, <2>3, <2>4
      <3>2. n # to
        BY <1>11, <2>2, <2>4
      <3> QED BY <2>2, <2>4, <3>1, <3>2 DEF Messages
    <2>5. CASE n # first /\ n = to /\ Backed
      <3>1. Own.up.no # n
        BY <2>1, <2>2, <2>5
      <3>2. dir'[n] = [dir[n] EXCEPT !.first = first]
        BY <2>1, <2>3, <2>5, <3>1
      <3> QED BY <2>2, <2>5, <3>2 DEF Messages
    <2>6. CASE n # first /\ ~ (n = to /\ Backed)
      <3>1. Own.up.no # n /\ Own.down.no # n
        BY <2>1, <2>2, <2>6
      <3>2. dir'[n] = dir[n]
        BY <2>3, <3>1
      <3> QED BY <2>6, <3>2
    <2> QED BY <2>4, <2>5, <2>6
  <1>13. ASSUME NEW n \in Files PROVE LinkTo(dir[n], n)'
    <2>1. LinkTo(dir[n], n)
      BY <1>8
    <2>2. CASE n # first
      <3>1. dir'[n].to = dir[n].to /\ dir'[n].id = dir[n].id
        BY <1>4, <1>12, <2>2
      <3> QED BY <1>4, <2>1, <3>1 DEF LinkTo
    <2>3. CASE n = first
      <3>1. dir'[n].to = newTo /\ dir'[n].id = dir[n].id
        BY <1>4, <1>12, <2>3
      <3>2. dir[n].to = m /\ m < n
        BY <1>9, <1>10, <2>3
      <3>3. newTo # 0 => newTo < n
        <4>1. newTo # 0 => newTo = to /\ to \in Files /\ to < m
          BY <1>0, <1>9 DEF Backed
        <4>2. m \in Int /\ n \in Int /\ (to \in Files => to \in Int)
          BY <1>7, <1>10
        <4> HIDE DEF newTo
        <4> QED BY <3>2, <4>1, <4>2
      <3>4. ASSUME newTo \in Files PROVE dir[newTo].id \in AncestorsIn(answers, dir[n].id)
        <4>1. newTo = to /\ to \in Files
          BY <1>10, <3>4
        <4>2. dir[to].id \in AncestorsIn(answers, dir[m].id)
          BY <1>7, <1>8, <4>1 DEF LinkTo
        <4>3. dir[m].id \in AncestorsIn(answers, dir[n].id)
          BY <1>7, <2>1, <3>2 DEF LinkTo
        <4>4. dir[m].id \in 1..Len(answers) /\ dir[n].id \in 1..Len(answers)
          BY <1>1, <1>7, FidoForms DEF FidoTypes
        <4>5. Earlier(answers)
          BY DEF LinkInv
        <4> HIDE DEF newTo
        <4> QED BY <4>1, <4>2, <4>3, <4>4, <4>5, AncestorsFacts
      <3>5. newTo \in Files => dir'[newTo].id = dir[newTo].id
        BY <1>4
      <3> HIDE DEF newTo
      <3> QED BY <1>4, <3>1, <3>3, <3>4, <3>5 DEF LinkTo
    <2> QED BY <2>2, <2>3
  <1>14. ASSUME NEW n \in Files, n # m PROVE LinkFirst(dir[n], n)'
    <2>1. CASE n = to /\ Backed
      <3>1. dir'[n].first = first
        BY <1>12, <2>1
      <3>2. first # 0 => first \in Files /\ dir'[first].to = to
        BY <1>9, <1>12, <2>1
      <3> QED BY <1>4, <2>1, <3>1, <3>2 DEF LinkFirst
    <2>2. CASE ~ (n = to /\ Backed)
      <3>1. dir'[n].first = dir[n].first /\ LinkFirst(dir[n], n)
        BY <1>8, <1>12, <2>2
      <3>2. ASSUME NEW g \in Files, dir[g].to = n PROVE dir'[g].to = n
        <4>1. g # first
          BY <1>9, <1>10, <1>14, <3>2
        <4> QED BY <1>12, <3>2, <4>1
      <3> QED BY <1>4, <3>1, <3>2 DEF LinkFirst
    <2> QED BY <2>1, <2>2
  <1>15. ASSUME NEW n \in Files, dir'[n].first = m PROVE n = m
    <2>1. CASE n = to /\ Backed
      <3>1. first = m
        BY <1>12, <1>15, <2>1
      <3>2. m \in Int /\ m # 0
        BY <1>7, <1>10
      <3> QED BY <1>9, <3>1, <3>2
    <2>2. CASE ~ (n = to /\ Backed)
      <3>1. dir[n].first = m /\ m # 0
        BY <1>7, <1>10, <1>12, <1>15, <2>2
      <3>2. dir[m].to = n
        BY <1>8, <3>1 DEF LinkFirst
      <3> QED BY <1>0, <1>7, <2>2, <3>1, <3>2 DEF Backed
    <2> QED BY <2>1, <2>2
  <1>16. LinkFiles'
    BY <1>0, <1>3, <1>4, <1>13, <1>14 DEF LinkFiles
  <1>17. LinkLocals'
    BY <1>0, <1>3, <1>4, <1>15 DEF LinkLocals, Waits
  <1> QED BY <1>16, <1>17

LEMMA LinkRemove == ASSUME FidoInv, LinkInv, RemoveFile(golded) PROVE LinkInv'
  <1>1. FidoTypes /\ FidoLocals
    BY DEF FidoInv
  <1>2. /\ Now = "remove" /\ dir' = [dir EXCEPT ![Here.no] = NoFile]
        /\ pc' = [pc EXCEPT ![golded] = "lastreads"]
        /\ UNCHANGED <<answers, renumbered>>
    BY DEF RemoveFile, history, Now, Here
  <1>3. Now' = "lastreads"
    BY <1>1, <1>2, FidoForms, FidoFacts DEF Now
  <1>4. Files' = Files \ {Here.no} /\ \A n \in Files' : dir'[n] = dir[n]
    <2>1. \A n \in DOMAIN dir : dir'[n] = IF n = Here.no THEN NoFile ELSE dir[n]
      BY <1>2
    <2>2. DOMAIN dir' = DOMAIN dir
      BY <1>2
    <2> QED BY <2>1, <2>2 DEF Files
  <1>5. Earlier(answers)'
    BY <1>2 DEF LinkInv
  <1>6. ~renumbered => LinkFiles'
    <2> SUFFICES ASSUME ~renumbered, NEW n \in Files' PROVE LinkTo(dir[n], n)' /\ LinkFirst(dir[n], n)'
      BY DEF LinkFiles
    <2>1. n \in Files /\ n # Here.no /\ dir'[n] = dir[n] /\ LinkTo(dir[n], n) /\ LinkFirst(dir[n], n)
      BY <1>4 DEF LinkInv, LinkFiles
    <2>2. dir[n].first # Here.no
      BY <1>2, <2>1 DEF LinkInv, LinkLocals
    <2>3. LinkTo(dir[n], n)'
      BY <1>2, <1>4, <2>1 DEF LinkTo
    <2>4. LinkFirst(dir[n], n)'
      BY <1>4, <2>1, <2>2 DEF LinkFirst
    <2> QED BY <2>3, <2>4
  <1> QED BY <1>2, <1>3, <1>5, <1>6 DEF LinkInv, LinkLocals, Waits

LEMMA LinkAdjusts ==
    ASSUME FidoInv, LinkInv, ReadLastreads(golded) \/ AdjustLastreads(golded)
    PROVE  LinkInv'
  <1>1. FidoTypes
    BY DEF FidoInv
  <1>2. Now \in {"lastreads", "adjust"} /\ UNCHANGED <<dir, answers, renumbered>>
    BY DEF ReadLastreads, AdjustLastreads, history, Now
  <1>3. \/ Now' = "adjust"
        \/ Now' = "idle" /\ Here' = NoMsg
    BY <1>1, FidoForms, FidoFacts DEF ReadLastreads, AdjustLastreads, Now, Here
  <1>4. LinkLocals'
    BY <1>3 DEF LinkLocals, LinkHere, Waits, NoMsg
  <1> QED BY <1>2, <1>3, <1>4, LinkQuiet

\* Nothing is said of the links once the area has been renumbered.
LEMMA LinkRenumbers ==
    ASSUME FidoInv, LinkInv, Renumber(golded) \/ RenumberMsg(golded) \/ RenumberIndex(golded)
    PROVE  LinkInv'
  <1>1. renumbered' /\ answers' = answers
    <2>1. CASE Renumber(golded)
      BY <2>1 DEF Renumber
    <2>2. CASE RenumberMsg(golded) \/ RenumberIndex(golded)
      <3>1. Now = "renumber" /\ UNCHANGED history
        BY <2>2 DEF RenumberMsg, RenumberIndex, Now
      <3> QED BY <3>1 DEF FidoInv, FidoList, history
    <2> QED BY <2>1, <2>2
  <1> QED BY <1>1 DEF LinkInv

LEMMA LinkStep == FidoInv /\ LinkInv /\ [Next]_vars => LinkInv'
  <1> SUFFICES ASSUME FidoInv, LinkInv, [Next]_vars PROVE LinkInv'
    OBVIOUS
  <1>1. CASE UNCHANGED vars
    <2>1. UNCHANGED <<dir, msg, pc, op, answers, renumbered>>
      BY <1>1 DEF vars, history
    <2>2. Files' = Files /\ Now' = Now /\ Here' = Here /\ Own' = Own
      BY <2>1 DEF Files, Now, Here, Own
    <2>3. LinkFiles' <=> LinkFiles
      BY <2>1, <2>2 DEF LinkFiles, LinkTo, LinkFirst
    <2>4. LinkLocals' <=> LinkLocals
      BY <2>1, <2>2 DEF LinkLocals, LinkHere, LinkFirst, Mended, Backed
    <2> QED BY <2>1, <2>3, <2>4 DEF LinkInv
  <1>2. CASE Step(golded)
    <2>1. CASE \/ Open(golded) \/ Close(golded) \/ Suspend(golded) \/ Read(golded)
               \/ \E mode \in {"post", "reply"} : Post(golded, mode)
      BY <2>1, LinkOpens, LinkRead, LinkPost
    <2>2. CASE \/ Create(golded) \/ LoadOriginal(golded) \/ LinkOriginal(golded) \/ SaveHdr(golded)
      BY <2>2, LinkCreate, LinkLoads, LinkSaves
    <2>3. CASE \/ Delete(golded) \/ SaveSplice(golded) \/ RemoveFile(golded)
               \/ ReadLastreads(golded) \/ AdjustLastreads(golded)
      BY <2>3, LinkDelete, LinkSplice, LinkRemove, LinkAdjusts
    <2>4. CASE Renumber(golded) \/ RenumberMsg(golded) \/ RenumberIndex(golded)
      BY <2>4, LinkRenumbers
    <2> QED BY <1>2, <2>1, <2>2, <2>3, <2>4 DEF Step
  <1> QED BY <1>1, <1>2, AloneAssumption DEF Next

LEMMA LinksFollowInv == FidoInv /\ LinkInv => LinksKept
  <1> SUFFICES ASSUME FidoInv, LinkInv, ~renumbered, AtRest PROVE LinkedBack /\ LinkedUp
    BY DEF LinksKept, LinkedBack, LinkedUp
  <1>1. golded \in Users
    BY FidoFacts DEF FidoInv
  <1>2. Now # "remove" /\ LinkFiles
    BY <1>1 DEF AtRest, Now, LinkInv
  <1>3. \A n \in Files : LinkTo(dir[n], n) /\ LinkFirst(dir[n], n)
    BY <1>2 DEF LinkFiles
  <1>4. LinkedBack
    BY <1>3 DEF LinkedBack, LinkFirst
  <1>5. LinkedUp
    BY <1>3, AncestorsSame DEF LinkedUp, LinkTo
  <1> QED BY <1>4, <1>5
=============================================================================

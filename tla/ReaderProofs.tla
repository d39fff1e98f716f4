---------------------------- MODULE ReaderProofs ----------------------------
(***************************************************************************)
(* Proofs about Reader, for any messages, options and bound: where the     *)
(* reader stands in its list, and what it leaves behind as read.  And      *)
(* proofs about Marks, the marking menu of the reader, for any message     *)
(* numbers and any links between them: the arrays of gutltag.cpp are kept  *)
(* in order, and implement sets of marked messages.                        *)
(***************************************************************************)
EXTENDS Reader, MCMarks, Counting

\* Types, with what they rest on: a job is under way in DelMsgs and CmfMsgs only,
\* and its marks and those it is done with are within the bound.
JobInv ==
    /\ pc # "job" => job.left = {}
    /\ job.done + Cardinality(job.left) <= MaxMsg
    /\ pc = "job" => job.kind # "none"

\* The position is in the list, unless there is nothing in it.
PlaceInv == pc # "closed" => lastread \in 0..Count \/ Msgn = {}

\* Until a job has begun, the message on screen is still that of the lastread.
ScreenInv == pc = "job" /\ job.done = 0 => msgno = At /\ msgno # 0

\* What the reader does not list has been posted since it opened the area.
NewInv == pc # "closed" =>
              \A m \in base \ Msgn : m > saved /\ \A k \in Msgn : k < m

\* What is behind the lastread on file and before the position has been passed.
PassedInv ==
    pc # "closed" /\ ~isreadpm =>
        \A m \in Msgn : saved < m /\ (m < At \/ (pc = "read" /\ m = At)) => m \in passed

\* The message of the lastread on file is found again, if it is there.
EntryInv == pc # "closed" /\ saved \in base => lastreadentry = saved

\* The inductive invariant.
IInv == TypeOK /\ JobInv /\ PlaceInv /\ OnScreen /\ ScreenInv
        /\ NewInv /\ PassedInv /\ EntryInv
-----------------------------------------------------------------------------
\* What Min and Max choose.
LEMMA MinOf ==
    ASSUME NEW T, T \subseteq Nat, T # {}
    PROVE  Min(T) \in T /\ \A y \in T : Min(T) <= y
  BY LeastNumber, Zenon DEF Min

LEMMA MaxOf ==
    ASSUME NEW n \in Nat, NEW T, T \subseteq 0..n, T # {}
    PROVE  Max(T) \in T /\ \A y \in T : y <= Max(T)
  <1>1. PICK x \in T : \A y \in T : y <= x
    BY GreatestNumber
  <1>2. \A y \in T : x >= y
    <2>1. ASSUME NEW y \in T PROVE x >= y
      <3>1. y <= x
        BY <1>1
      <3>2. x \in 0..n /\ y \in 0..n
        OBVIOUS
      <3> QED BY <3>1, <3>2
    <2> QED BY <2>1
  <1>3. Max(T) \in T /\ \A y \in T : Max(T) >= y
    BY <1>2, Zenon DEF Max
  <1>4. ASSUME NEW y \in T PROVE y <= Max(T)
    <2>1. Max(T) >= y
      BY <1>3
    <2>2. Max(T) \in 0..n /\ y \in 0..n
      BY <1>3
    <2> QED BY <2>1, <2>2
  <1> QED BY <1>3, <1>4

\* ToReln gives the messages of an array the positions from 1 on ...
LEMMA RelnType ==
    ASSUME NEW n \in Nat, NEW S, S \subseteq 1..n
    PROVE  /\ IsFiniteSet(S) /\ Cardinality(S) \in 0..n /\ S \subseteq Int
           /\ \A m : ToReln(S, m) \in 0..Cardinality(S)
           /\ \A m \in S : ToReln(S, m) = Rank(S, m) /\ ToReln(S, m) \in 1..Cardinality(S)
           /\ \A m : m \notin S => ToReln(S, m) = 0
  <1>1. IsFiniteSet(S) /\ Cardinality(S) \in 0..n
    <2>1. IsFiniteSet(1..n) /\ Cardinality(1..n) = n
      BY FS_Interval
    <2>2. S \in SUBSET (1..n)
      OBVIOUS
    <2>3. IsFiniteSet(S) /\ Cardinality(S) <= n
      BY <2>1, <2>2, FS_Subset, Zenon
    <2>4. Cardinality(S) \in Nat
      BY <2>3, FS_CardinalityType
    <2> QED BY <2>3, <2>4
  <1>2. S \subseteq Int
    OBVIOUS
  <1>3. \A m \in S : Rank(S, m) \in 1..Cardinality(S)
    BY <1>1, <1>2, RankInjective
  <1>4. \A m \in S : ToReln(S, m) = Rank(S, m)
    BY DEF ToReln, Rank
  <1>5. \A m : m \notin S => ToReln(S, m) = 0
    BY DEF ToReln
  <1>6. ASSUME NEW m PROVE ToReln(S, m) \in 0..Cardinality(S)
    <2>1. CASE m \in S
      <3>1. ToReln(S, m) \in 1..Cardinality(S)
        BY <1>3, <1>4, <2>1
      <3> QED BY <1>1, <3>1
    <2>2. CASE m \notin S
      BY <1>1, <1>5, <2>2
    <2> QED BY <2>1, <2>2
  <1> QED BY <1>1, <1>2, <1>3, <1>4, <1>5, <1>6

\* ... in the order of their numbers.
LEMMA RelnOrder ==
    ASSUME NEW n \in Nat, NEW S, S \subseteq 1..n, NEW m \in S, NEW k \in S
    PROVE  /\ ToReln(S, m) < ToReln(S, k) <=> m < k
           /\ ToReln(S, m) = ToReln(S, k) <=> m = k
  <1>1. IsFiniteSet(S) /\ S \subseteq Int
    BY RelnType
  <1>2. ToReln(S, m) = Rank(S, m) /\ ToReln(S, k) = Rank(S, k)
    BY DEF ToReln, Rank
  <1>3. Rank(S, m) = Rank(S, k) <=> m = k
    BY <1>1, RankInjective
  <1>4. Rank(S, m) < Rank(S, k) <=> m < k
    BY <1>1, RankInjective
  <1> QED BY <1>2, <1>3, <1>4

\* CvtReln finds the message of a position again, and 0 at any other.
LEMMA CvtFinds ==
    ASSUME NEW n \in Nat, NEW S, S \subseteq 1..n
    PROVE  /\ \A r : CvtReln(S, r) \in S \cup {0}
           /\ \A r : CvtReln(S, r) # 0 =>
                  CvtReln(S, r) \in S /\ r \in 1..Cardinality(S)
                  /\ ToReln(S, CvtReln(S, r)) = r
           /\ \A r \in 1..Cardinality(S) : CvtReln(S, r) \in S
           /\ \A m \in S : CvtReln(S, ToReln(S, m)) = m
           /\ CvtReln(S, 0) = 0
           /\ CvtReln(S, ToReln(S, 0)) = 0
  <1>1. \A r : \/ CvtReln(S, r) = 0 /\ ~ \E m \in S : ToReln(S, m) = r
               \/ CvtReln(S, r) \in S /\ ToReln(S, CvtReln(S, r)) = r
    BY Zenon DEF CvtReln
  <1>2. 0 \notin S
    OBVIOUS
  <1>3. \A m \in S : ToReln(S, m) \in 1..Cardinality(S)
    BY RelnType
  <1>4. ASSUME NEW r \in 1..Cardinality(S) PROVE CvtReln(S, r) \in S
    <2>1. S \subseteq 0..n
      OBVIOUS
    <2>2. PICK m \in S : Rank(S, m) = r
      BY <2>1, RankTaken
    <2>3. ToReln(S, m) = r
      BY <2>2, RelnType
    <2> QED BY <1>1, <2>3
  <1>5. ASSUME NEW m \in S PROVE CvtReln(S, ToReln(S, m)) = m
    <2>1. CvtReln(S, ToReln(S, m)) \in S
          /\ ToReln(S, CvtReln(S, ToReln(S, m))) = ToReln(S, m)
      BY <1>1, Zenon
    <2> DEFINE k == CvtReln(S, ToReln(S, m))
    <2>2. k \in S /\ ToReln(S, k) = ToReln(S, m)
      BY <2>1
    <2> HIDE DEF k
    <2>3. k = m
      BY <2>2, RelnOrder
    <2> QED BY <2>3 DEF k
  <1>6. CvtReln(S, 0) = 0
    <2>1. ~ \E m \in S : ToReln(S, m) = 0
      <3>1. ASSUME NEW m \in S, ToReln(S, m) = 0 PROVE FALSE
        <4>1. 0 \in 1..Cardinality(S)
          BY <1>3, <3>1
        <4> QED BY <4>1
      <3> QED BY <3>1
    <2> QED BY <2>1 DEF CvtReln
  <1>7. ToReln(S, 0) = 0
    BY <1>2 DEF ToReln
  <1> QED BY <1>1, <1>2, <1>3, <1>4, <1>5, <1>6, <1>7, Zenon

\* What is before or after the message at a position, is so in the positions.
LEMMA CvtOrder ==
    ASSUME NEW n \in Nat, NEW S, S \subseteq 1..n, NEW r, CvtReln(S, r) # 0, NEW m \in S
    PROVE  /\ ToReln(S, m) < r <=> m < CvtReln(S, r)
           /\ r < ToReln(S, m) <=> CvtReln(S, r) < m
           /\ ToReln(S, m) = r <=> m = CvtReln(S, r)
           /\ ToReln(S, m) \in Nat /\ r \in Nat /\ m \in Nat /\ CvtReln(S, r) \in Nat
  <1> DEFINE k == CvtReln(S, r)
  <1>1. k \in S /\ ToReln(S, k) = r /\ r \in 1..Cardinality(S)
    BY CvtFinds
  <1>2. ToReln(S, m) \in 0..Cardinality(S) /\ Cardinality(S) \in 0..n
    BY RelnType
  <1> HIDE DEF k
  <1>3. ToReln(S, m) < ToReln(S, k) <=> m < k
    BY <1>1, RelnOrder
  <1>4. ToReln(S, k) < ToReln(S, m) <=> k < m
    BY <1>1, RelnOrder
  <1>5. ToReln(S, m) = ToReln(S, k) <=> m = k
    BY <1>1, RelnOrder
  <1>6. m \in Nat /\ k \in Nat
    BY <1>1
  <1>7. ToReln(S, m) \in Nat /\ r \in Nat
    BY <1>1, <1>2
  <1> QED BY <1>1, <1>3, <1>4, <1>5, <1>6, <1>7 DEF k

LEMMA Ranges ==
    ASSUME NEW n \in Nat, NEW S, S \subseteq 1..n
    PROVE  /\ \A m : ToReln(S, m) \in 0..Cardinality(S)
           /\ \A r : CvtReln(S, r) \in S \cup {0} /\ CvtReln(S, r) \in 0..n
           /\ Cardinality(S) \in 0..n
           /\ \A m : ToReln(S, m) \in 0..n
  <1>1. \A r : CvtReln(S, r) \in S \cup {0}
    BY CvtFinds
  <1>2. ASSUME NEW r PROVE CvtReln(S, r) \in 0..n
    <2>1. S \cup {0} \subseteq 0..n
      OBVIOUS
    <2> QED BY <1>1, <2>1, Zenon
  <1>3. Cardinality(S) \in 0..n /\ \A m : ToReln(S, m) \in 0..Cardinality(S)
    BY RelnType
  <1>4. ASSUME NEW m PROVE ToReln(S, m) \in 0..n
    <2>1. ToReln(S, m) \in 0..Cardinality(S)
      BY <1>3
    <2> QED BY <1>3, <2>1
  <1> QED BY <1>1, <1>2, <1>3, <1>4

\* NextMarkedmsg goes to one of the tags, and from the last one nowhere.
LEMMA NextMarkedIn ==
    ASSUME NEW n \in Nat, NEW tag, tag \subseteq 1..n, NEW m, NEW dir, tag # {}
    PROVE  /\ NextMarked(tag, m, dir).to \in tag
           /\ ~ NextMarked(tag, m, dir).found => NextMarked(tag, m, dir).to = m
  <1> DEFINE beyond == {t \in tag : IF dir = "next" THEN t > m ELSE t < m}
             end == IF dir = "next" THEN Max(tag) ELSE Min(tag)
             to == CASE beyond = {} -> end
                     [] beyond # {} /\ dir = "next" -> Min(beyond)
                     [] OTHER -> Max(beyond)
  <1>1. tag \subseteq 0..n /\ tag \subseteq Nat
    OBVIOUS
  <1>2. Max(tag) \in tag /\ \A t \in tag : t <= Max(tag)
    BY <1>1, MaxOf
  <1>3. Min(tag) \in tag /\ \A t \in tag : Min(tag) <= t
    BY <1>1, MinOf
  <1>4. beyond # {} => Min(beyond) \in tag /\ Max(beyond) \in tag
    <2>1. beyond \subseteq tag
      OBVIOUS
    <2> HIDE DEF beyond
    <2>2. beyond \subseteq 0..n /\ beyond \subseteq Nat
      BY <1>1, <2>1
    <2>3. beyond # {} => Min(beyond) \in beyond /\ Max(beyond) \in beyond
      BY <2>2, MinOf, MaxOf
    <2> QED BY <2>1, <2>3
  <1>5. to = end \/ to = Min(beyond) \/ to = Max(beyond)
    OBVIOUS
  <1>6. to \in tag
    <2>1. end \in tag
      BY <1>2, <1>3
    <2> HIDE DEF beyond, end
    <2>2. CASE beyond = {}
      BY <2>1, <2>2
    <2>3. CASE beyond # {}
      <3>1. Min(beyond) \in tag /\ Max(beyond) \in tag
        BY <1>4, <2>3
      <3> QED BY <1>5, <2>1, <3>1
    <2> QED BY <2>2, <2>3
  <1>7. m = end => to = m
    <2> SUFFICES ASSUME m = end PROVE beyond = {}
      OBVIOUS
    <2>1. CASE dir = "next"
      <3>1. \A t \in tag : t <= m
        BY <1>2, <2>1
      <3>2. ASSUME NEW t \in tag PROVE ~ (t > m)
        <4>1. t <= m /\ t \in 0..n /\ m \in 0..n
          BY <1>1, <1>2, <2>1, <3>1
        <4> QED BY <4>1
      <3> QED BY <2>1, <3>2
    <2>2. CASE dir # "next"
      <3>1. \A t \in tag : m <= t
        BY <1>3, <2>2
      <3>2. ASSUME NEW t \in tag PROVE ~ (t < m)
        <4>1. m <= t /\ t \in 0..n /\ m \in 0..n
          BY <1>1, <1>3, <2>2, <3>1
        <4> QED BY <4>1
      <3> QED BY <2>2, <3>2
    <2> QED BY <2>1, <2>2
  <1>8. NextMarked(tag, m, dir) = [to |-> to, found |-> m # end]
    BY Zenon DEF NextMarked
  <1> HIDE DEF to, end, beyond
  <1>9. NextMarked(tag, m, dir).to = to /\ NextMarked(tag, m, dir).found = (m # end)
    BY <1>8
  <1> QED BY <1>6, <1>7, <1>9, Zenon
-----------------------------------------------------------------------------
\* What is in the list is in the base, in the numbers so far.
LEMMA Bounds ==
    ASSUME TypeOK
    PROVE  /\ last \in Nat /\ MaxMsg \in Nat /\ last <= MaxMsg /\ 0..last \subseteq 0..MaxMsg
           /\ base \subseteq 1..last
           /\ pc # "closed" => Msgn \subseteq 1..last
  <1>1. last \in 0..MaxMsg /\ MaxMsg \in Nat
    BY MessageAssumption DEF TypeOK
  <1>2. base \subseteq 1..last /\ (pc # "closed" => Msgn \subseteq base)
    BY DEF TypeOK
  <1>3. pc # "closed" => Msgn \subseteq 1..last
    BY <1>2, Zenon
  <1>4. last \in Nat /\ last <= MaxMsg /\ 0..last \subseteq 0..MaxMsg
    BY <1>1
  <1> QED BY <1>1, <1>2, <1>3, <1>4

\* The lastread of raw_scan is a position in the base, its entry a message.
LEMMA ScanType ==
    ASSUME NEW n \in Nat, base \subseteq 1..n
    PROVE  /\ ScanLastread \in 0..Cardinality(base) /\ Cardinality(base) \in 0..n
           /\ ScanLastreadEntry \in 0..n
           /\ saved \in base => ScanLastreadEntry = saved
  <1>1. IsFiniteSet(base) /\ Cardinality(base) \in 0..n
    BY RelnType
  <1>2. ScanLastread \in 0..Cardinality(base)
    BY <1>1, RankType DEF ScanLastread, Rank
  <1> DEFINE from == {m \in base : m >= saved}
  <1>3. from \subseteq base /\ from \subseteq Nat
    <2>1. ASSUME NEW m \in base PROVE m \in Nat
      OBVIOUS
    <2> QED BY <2>1
  <1>4. from # {} => Min(from) \in from /\ \A y \in from : Min(from) <= y
    <2> HIDE DEF from
    <2> QED BY <1>3, MinOf
  <1>5. ScanLastreadEntry = IF from = {} THEN 0 ELSE Min(from)
    BY DEF ScanLastreadEntry
  <1>6. ScanLastreadEntry \in 0..n
    <2> HIDE DEF from
    <2> QED BY <1>3, <1>4, <1>5
  <1>7. ASSUME saved \in base PROVE ScanLastreadEntry = saved
    <2>1. saved \in Nat
      BY <1>7
    <2>2. saved \in from
      BY <1>7, <2>1
    <2>3. Min(from) >= saved /\ Min(from) \in from
      BY <1>4, <2>2
    <2>4. Min(from) <= saved
      BY <1>4, <2>2
    <2>5. Min(from) \in Nat
      <3> HIDE DEF from
      <3> QED BY <1>3, <2>3
    <2>6. Min(from) = saved
      <3> HIDE DEF from
      <3> QED BY <2>1, <2>3, <2>4, <2>5
    <2> QED BY <1>5, <2>2, <2>6, Zenon
  <1> QED BY <1>1, <1>2, <1>6, <1>7

LEMMA DeleteMsgType ==
    ASSUME TypeOK, pc # "closed", NEW m, NEW dir, DeleteMsg(m, dir)
    PROVE  /\ base' = base \ {m} /\ Msgn' = Msgn \ {m}
           /\ base' \subseteq 1..last /\ Msgn' \subseteq base'
           /\ lastread' \in 0..MaxMsg /\ lastread' \in 0..Count'
  <1>1. base' = base \ {m} /\ Msgn' = Msgn \ {m} /\ \E k : lastread' = ToReln(Msgn', k)
    BY Zenon DEF DeleteMsg
  <1>2. base' \subseteq 1..last /\ Msgn' \subseteq base' /\ Msgn' \subseteq 1..last
    BY <1>1, Bounds DEF TypeOK
  <1>3. lastread' \in 0..Cardinality(Msgn') /\ lastread' \in 0..last
    BY <1>1, <1>2, Bounds, Ranges
  <1> QED BY <1>1, <1>2, <1>3, Bounds DEF Count

\* Where the area is left, and where one goes in it.
LEMMA ClosingType ==
    ASSUME TypeOK, pc # "closed", NEW reln \in 0..MaxMsg, Closing(reln)
    PROVE  /\ saved' \in 0..last /\ lastread' \in 0..MaxMsg /\ msgno' = 0 /\ pc' = "closed"
           /\ isreadpm' = FALSE /\ isreadmark' = FALSE /\ PMrk' = {}
           /\ saved' = CvtReln(Msgn, lastread')
           /\ lastread' = IF isreadpm THEN ToReln(Msgn, lastreadentry) ELSE reln
  <1>1. ToReln(Msgn, lastreadentry) \in 0..MaxMsg
    <2>1. ToReln(Msgn, lastreadentry) \in 0..last
      BY Bounds, Ranges
    <2> QED BY <2>1, Bounds
  <1>2. lastread' \in 0..MaxMsg /\ saved' = CvtReln(Msgn, lastread')
        /\ msgno' = 0 /\ pc' = "closed"
        /\ isreadpm' = FALSE /\ isreadmark' = FALSE /\ PMrk' = {}
        /\ lastread' = IF isreadpm THEN ToReln(Msgn, lastreadentry) ELSE reln
    BY <1>1 DEF Closing
  <1> QED BY <1>2, Bounds, Ranges

LEMMA next_msgType ==
    ASSUME NEW dir, next_msg(dir) # 0, lastread \in Nat, Count \in Nat
    PROVE  /\ next_msg(dir) \in 1..Count \/ next_msg(dir) \in 1..lastread
           /\ lastread <= Count => next_msg(dir) \in 1..Count
           /\ next_msg(dir) = IF dir = "next" THEN lastread + 1 ELSE lastread - 1
  BY DEF next_msg

\* The jobs on given marks.
Jobs(marks) == [kind : {"none", "delete", "move"}, left : SUBSET marks, done : 0..MaxMsg]

\* TypeOK, JobInv and PlaceInv are inductive, action by action.
LEMMA TypeStep ==
    ASSUME TypeOK, JobInv, PlaceInv, OnScreen, ScreenInv, [Next]_vars
    PROVE  TypeOK' /\ JobInv' /\ PlaceInv'
  <1>a. last \in Nat /\ MaxMsg \in Nat /\ last <= MaxMsg /\ 0..last \subseteq 0..MaxMsg
        /\ base \subseteq 1..last /\ (pc # "closed" => Msgn \subseteq 1..last)
    BY Bounds
  <1>b. /\ \A m : ToReln(base, m) \in 0..MaxMsg
        /\ \A r : CvtReln(base, r) \in 0..last
        /\ Cardinality(base) \in 0..last
        /\ \A m : ToReln(base, m) \in 0..Cardinality(base)
    <2>1. \A m : ToReln(base, m) \in 0..last
      BY <1>a, Ranges
    <2> QED BY <1>a, <2>1, Ranges
  <1>c. pc # "closed" =>
        /\ \A m : ToReln(Msgn, m) \in 0..MaxMsg
        /\ \A r : CvtReln(Msgn, r) \in 0..last
        /\ \A r : CvtReln(Msgn, r) \in Msgn \cup {0}
        /\ Count \in 0..MaxMsg
        /\ \A m : ToReln(Msgn, m) \in 0..Count
    <2>1. SUFFICES ASSUME pc # "closed"
                   PROVE  /\ \A m : ToReln(Msgn, m) \in 0..MaxMsg
                          /\ \A r : CvtReln(Msgn, r) \in 0..last
                          /\ \A r : CvtReln(Msgn, r) \in Msgn \cup {0}
                          /\ Count \in 0..MaxMsg
                          /\ \A m : ToReln(Msgn, m) \in 0..Count
      OBVIOUS
    <2>2. \A m : ToReln(Msgn, m) \in 0..last
      BY <1>a, <2>1, Ranges
    <2>3. Cardinality(Msgn) \in 0..last /\ \A m : ToReln(Msgn, m) \in 0..Cardinality(Msgn)
      BY <1>a, <2>1, Ranges
    <2>4. \A r : CvtReln(Msgn, r) \in Msgn \cup {0} /\ CvtReln(Msgn, r) \in 0..last
      BY <1>a, <2>1, Ranges
    <2> QED BY <1>a, <2>2, <2>3, <2>4 DEF Count
  <1>j. job \in Jobs(Mark) /\ NoJob \in Jobs({}) /\ job.left \subseteq Mark
    BY <1>a DEF TypeOK, NoJob, Jobs
  <1>k. NoJob.left = {} /\ NoJob.done = 0 /\ Cardinality({}) = 0
    BY FS_EmptySet DEF NoJob
  <1>n. (pc # "job" => job.left = {}) /\ job.done \in 0..MaxMsg /\ job.done + Cardinality(job.left) <= MaxMsg
    BY <1>j DEF JobInv, Jobs
  <1>p. JobInv /\ job' = job /\ (pc' = "job" => pc = "job") /\ (pc' # "job" => job.left = {}) => JobInv'
    BY DEF JobInv
  <1>q. job' = NoJob /\ pc' # "job" => JobInv'
    BY <1>k, <1>a DEF JobInv
  <1>1. CASE Post
    <2>1. last' = last + 1 /\ last' \in 0..MaxMsg /\ base' \subseteq 1..last' /\ base \subseteq base'
          /\ 1..last \subseteq 1..last' /\ 0..last \subseteq 0..last'
      BY <1>1, <1>a DEF Post
    <2>2. TypeOK'
      BY <1>1, <2>1 DEF Post, TypeOK, place
    <2> QED BY <1>1, <2>2, <1>p, <1>n DEF Post, PlaceInv, Count, place
  <1>2. CASE \E m \in base : Purge(m)
    BY <1>2, <1>n, <1>p DEF Purge, TypeOK, place, PlaceInv
  <1>3. CASE ScanPM
    <2>1. lastread' \in 0..MaxMsg /\ lastreadentry' \in 0..last
      BY <1>3, <1>a, <1>b, ScanType DEF ScanPM
    <2> QED BY <1>3, <2>1, <1>n, <1>p DEF ScanPM, TypeOK, stored, PlaceInv
  <1>4. CASE Open
    <2>1. ScanLastread \in 0..MaxMsg /\ lastreadentry' \in 0..last /\ Msgn' = base
          /\ pc' = "load" /\ ScanLastread \in 0..Cardinality(base)
      BY <1>4, <1>a, <1>b, ScanType DEF Open
    <2>2. bookmark' \in 0..last
      BY <1>4, <1>b DEF Open
    <2>3. lastread' \in 0..Cardinality(base)
      BY <1>4, <1>b, <2>1 DEF Open
    <2>4. lastread' \in 0..MaxMsg
      BY <1>a, <1>b, <2>3
    <2> QED BY <1>4, <2>1, <2>2, <2>3, <2>4, <1>n, <1>p DEF Open, TypeOK, stored, PlaceInv, Count
  <1>5. CASE LoadMessage
    <2>1. msgno' \in 0..last /\ msgno' \in Msgn \cup {0} /\ lastread' \in 0..MaxMsg /\ lastread' \in 0..Count
      BY <1>5, <1>c DEF LoadMessage
    <2>2. passed' \subseteq 1..last /\ received' \subseteq Personal
      BY <1>5, <1>a DEF LoadMessage, TypeOK
    <2> QED BY <1>5, <2>1, <2>2, <1>n, <1>p DEF LoadMessage, TypeOK, PlaceInv, Count
  <1>6. CASE Close
    <2>1. lastread \in 0..MaxMsg /\ pc # "closed" /\ Closing(lastread)
      BY <1>6 DEF Close, TypeOK
    <2>2. saved' \in 0..last /\ lastread' \in 0..MaxMsg /\ msgno' = 0 /\ pc' = "closed"
          /\ isreadpm' \in BOOLEAN /\ isreadmark' \in BOOLEAN /\ PMrk' = {}
      BY <2>1, ClosingType
    <2>3. pc = "read" /\ UNCHANGED <<base, last, received, Msgn, Mark, lastreadentry, bookmark,
                                    direction, job, agreed, passed>>
      BY <1>6, Zenon DEF Close
    <2>4. TypeOK'
      BY <2>2, <2>3, <1>a DEF TypeOK
    <2> QED BY <2>2, <2>3, <2>4, <1>n, <1>p DEF PlaceInv
  <1>7. ASSUME NEW dir \in {"next", "prev"}, GoNextMsg(dir)
        PROVE  TypeOK' /\ JobInv' /\ PlaceInv'
    <2>1. pc = "read" /\ pc' = "load" /\ direction' = dir
      BY <1>7, Zenon DEF GoNextMsg, GoTo
    <2>2. lastread' \in 0..MaxMsg /\ (lastread' \in 0..Count \/ Msgn = {})
      <3>1. CASE isreadpm \/ isreadmark
        <4>1. \E m : lastread' = ToReln(Msgn, m)
          BY <1>7, <3>1, Zenon DEF GoNextMsg, GoTo
        <4> QED BY <2>1, <4>1, <1>c
      <3>2. CASE ~ (isreadpm \/ isreadmark)
        <4>1. lastread' = next_msg(dir) /\ next_msg(dir) # 0
          BY <1>7, <3>2, Zenon DEF GoNextMsg, GoTo
        <4>2. lastread \in 0..MaxMsg /\ Count \in 0..MaxMsg /\ MaxMsg \in Nat
              /\ (lastread \in 0..Count \/ Msgn = {})
          BY <1>a, <1>c, <2>1 DEF TypeOK, PlaceInv
        <4> QED BY <4>1, <4>2, next_msgType
      <3> QED BY <3>1, <3>2
    <2>3. passed' \subseteq 1..last
      <3>1. passed' = passed \cup JumpedOver(lastread') \/ passed' = passed
        BY <1>7, Zenon DEF GoNextMsg
      <3> QED BY <3>1, <2>1, <1>a DEF TypeOK, JumpedOver
    <2>4. UNCHANGED <<stored, Msgn, PMrk, Mark, lastreadentry, bookmark,
                       isreadpm, isreadmark, msgno, job, agreed>>
      BY <1>7, Zenon DEF GoNextMsg
    <2> QED BY <2>1, <2>2, <2>3, <2>4, <1>n, <1>p DEF TypeOK, PlaceInv, Count, stored
  <1>8. ASSUME NEW dir \in {"next", "prev"}, GoNextArea(dir)
        PROVE  TypeOK' /\ JobInv' /\ PlaceInv'
    <2>1. pc = "read" /\ direction' = dir
          /\ UNCHANGED <<base, last, received, Msgn, Mark, lastreadentry, bookmark, job, agreed, passed>>
      BY <1>8, Zenon DEF GoNextArea
    <2>2. PICK reln \in 0..MaxMsg : Closing(reln)
      <3>1. lastread \in 0..MaxMsg /\ 0 \in 0..MaxMsg /\ \A m : ToReln(Msgn, m) \in 0..MaxMsg
        BY <1>a, <1>c, <2>1 DEF TypeOK
      <3> QED BY <1>8, <3>1 DEF GoNextArea
    <2>3. saved' \in 0..last /\ lastread' \in 0..MaxMsg /\ msgno' = 0 /\ pc' = "closed"
          /\ isreadpm' \in BOOLEAN /\ isreadmark' \in BOOLEAN /\ PMrk' = {}
      BY <2>1, <2>2, ClosingType
    <2>4. TypeOK'
      BY <2>1, <2>3, <1>a DEF TypeOK
    <2> QED BY <2>1, <2>3, <2>4, <1>n, <1>p DEF PlaceInv
  <1>9. CASE \E dir \in {"next", "prev"} : StayHere(dir)
    BY <1>9, <1>n, <1>p DEF StayHere, TypeOK, PlaceInv, Count, stored
  <1>10. ASSUME NEW dir \in {"next", "prev"}, GotoEnd(dir)
         PROVE  TypeOK' /\ JobInv' /\ PlaceInv'
    <2>1. pc = "read" /\ pc' = "load" /\ direction' = dir
          /\ UNCHANGED <<stored, Msgn, PMrk, Mark, lastreadentry, bookmark, isreadpm,
                         isreadmark, msgno, job, agreed>>
          /\ passed' = passed \cup JumpedOver(lastread')
      BY <1>10, Zenon DEF GotoEnd, GoTo
    <2>2. passed' \subseteq 1..last
      BY <2>1, <1>a DEF TypeOK, JumpedOver
    <2>3. Count \in 0..MaxMsg /\ (Msgn # {} => Count >= 1)
      <3>1. Msgn # {} => Cardinality(Msgn) # 0
        <4>1. IsFiniteSet(Msgn)
          BY <2>1, <1>a, RelnType
        <4> QED BY <4>1, FS_EmptySet
      <3> QED BY <2>1, <3>1, <1>c DEF Count
    <2>4. lastread' \in 0..MaxMsg /\ (lastread' \in 0..Count \/ Msgn = {})
      <3>1. CASE ~isreadpm /\ ~isreadmark
        <4>1. lastread' = IF dir = "prev" THEN Count ELSE IF Msgn = {} THEN 0 ELSE 1
          BY <1>10, <3>1, Zenon DEF GotoEnd, GoTo
        <4> QED BY <2>1, <2>3, <4>1, <1>a
      <3>2. CASE lastread' \in 0..Count
        BY <2>3, <3>2, <1>a
      <3>3. CASE isreadpm /\ dir = "next" /\ lastread' = 1 /\ PMrk # {}
        <4>1. PICK m \in PMrk : TRUE
          BY <3>3
        <4>2. m \in 1..MaxMsg /\ MaxMsg \in Nat
          BY MessageAssumption DEF TypeOK
        <4>3. 1 \in 0..MaxMsg
          BY <4>2
        <4> QED BY <2>3, <3>3, <4>3, <1>a
      <3>4. CASE \E m : lastread' = ToReln(Msgn, m)
        BY <2>1, <3>4, <1>c
      <3> QED BY <1>10, <3>1, <3>2, <3>3, <3>4, Zenon DEF GotoEnd, GoTo
    <2> QED BY <2>1, <2>2, <2>4, <1>n, <1>p DEF TypeOK, PlaceInv, Count, stored
  <1>11. CASE \E reln \in 1..Count : GotoMsgno(reln)
    <2>1. pc = "read" /\ pc' = "load" /\ lastread' \in 1..Count
          /\ UNCHANGED <<stored, Msgn, PMrk, Mark, lastreadentry, bookmark, isreadpm,
                         isreadmark, msgno, direction, job, agreed>>
          /\ passed' = passed \cup JumpedOver(lastread')
      BY <1>11, Zenon DEF GotoMsgno, GoTo
    <2>2. passed' \subseteq 1..last
      BY <2>1, <1>a DEF TypeOK, JumpedOver
    <2>3. lastread' \in 0..MaxMsg /\ lastread' \in 0..Count
      BY <2>1, <1>a, <1>c
    <2> QED BY <2>1, <2>2, <2>3, <1>n, <1>p DEF TypeOK, PlaceInv, Count, stored
  <1>12. CASE GotoBookMark
    <2>1. pc = "read" /\ pc' = "load" /\ lastread' = ToReln(Msgn, bookmark) /\ bookmark' = msgno
          /\ UNCHANGED <<stored, Msgn, PMrk, Mark, lastreadentry, isreadpm,
                         isreadmark, msgno, direction, job, agreed>>
          /\ passed' = passed \cup JumpedOver(lastread')
      BY <1>12, Zenon DEF GotoBookMark, GoTo
    <2>2. passed' \subseteq 1..last
      BY <2>1, <1>a DEF TypeOK, JumpedOver
    <2> QED BY <2>1, <2>2, <1>a, <1>c, <1>n, <1>p DEF TypeOK, PlaceInv, Count, stored
  <1>13. CASE ToggleMarkRead
    <2>1. pc = "read" /\ pc' = "load" /\ (isreadpm' \in BOOLEAN) /\ (isreadmark' \in BOOLEAN)
          /\ UNCHANGED <<stored, Msgn, PMrk, Mark, lastreadentry, bookmark, msgno,
                         direction, job, agreed>>
      BY <1>13 DEF ToggleMarkRead, GoTo, TypeOK
    <2>2. passed' \subseteq 1..last
      <3>1. passed' = passed \/ passed' = passed \cup {m \in Msgn : ToReln(Msgn, m) <= lastread'}
        BY <1>13, Zenon DEF ToggleMarkRead
      <3> QED BY <2>1, <3>1, <1>a DEF TypeOK
    <2>3. lastread' \in 0..MaxMsg /\ (lastread' \in 0..Count \/ Msgn = {})
      <3>1. lastread' = lastread \/ \E m : lastread' = ToReln(Msgn, m)
        BY <1>13, Zenon DEF ToggleMarkRead, GoTo
      <3> QED BY <2>1, <3>1, <1>c DEF TypeOK, PlaceInv
    <2> QED BY <2>1, <2>2, <2>3, <1>n, <1>p DEF TypeOK, PlaceInv, Count, stored
  <1>14. CASE ToggleMark
    <2>1. pc = "read" /\ Mark' \subseteq 1..last
          /\ UNCHANGED <<stored, Msgn, PMrk, place, msgno, pc, job, agreed, passed>>
      BY <1>14, <1>a DEF ToggleMark, TypeOK
    <2>2. job.left = {} /\ job \in [kind : {"none", "delete", "move"}, left : SUBSET Mark', done : 0..MaxMsg]
      BY <2>1, <1>j, <1>n DEF Jobs
    <2> QED BY <2>1, <2>2, <1>n, <1>p DEF TypeOK, PlaceInv, Count, stored, place
  <1>15. ASSUME NEW kind \in {"delete", "move"}, DoCurrent(kind)
         PROVE  TypeOK' /\ JobInv' /\ PlaceInv'
    <2>1. pc = "read" /\ pc' = "load" /\ agreed' = {msgno} /\ Msgn # {}
          /\ UNCHANGED <<last, saved, received, lastreadentry, bookmark, isreadpm,
                         isreadmark, direction, msgno, job, passed>>
          /\ PMrk' \subseteq PMrk /\ Mark' \subseteq Mark
          /\ \E dir : DeleteMsg(msgno, dir)
      BY <1>15 DEF DoCurrent
    <2>2. PICK dir : DeleteMsg(msgno, dir)
      BY <2>1
    <2>3. base' \subseteq 1..last /\ Msgn' \subseteq base' /\ lastread' \in 0..MaxMsg /\ lastread' \in 0..Count'
      BY <2>1, <2>2, DeleteMsgType
    <2>4. agreed' \subseteq 1..last
      BY <2>1 DEF TypeOK, OnScreen
    <2>5. job.left = {} /\ job \in [kind : {"none", "delete", "move"}, left : SUBSET Mark', done : 0..MaxMsg]
      BY <2>1, <1>j, <1>n DEF Jobs
    <2> QED BY <2>1, <2>3, <2>4, <2>5, <1>a, <1>n, <1>p DEF TypeOK, PlaceInv
  <1>16. CASE DoNotDelete
    <2>1. pc = "read" /\ pc' = "load" /\ Mark' \subseteq Mark /\ PMrk' \subseteq PMrk
          /\ UNCHANGED <<stored, Msgn, place, msgno, job, agreed, passed>>
      BY <1>16 DEF DoNotDelete
    <2>2. job.left = {} /\ job \in [kind : {"none", "delete", "move"}, left : SUBSET Mark', done : 0..MaxMsg]
      BY <2>1, <1>j, <1>n DEF Jobs
    <2> QED BY <2>1, <2>2, <1>a, <1>n, <1>p DEF TypeOK, PlaceInv, Count, stored, place
  <1>17. CASE \E kind \in {"delete", "move"} : DoMarked(kind)
    <2>1. PICK kind \in {"delete", "move"} : DoMarked(kind)
      BY <1>17
    <2>2. pc = "read" /\ pc' = "job" /\ agreed' = Mark
          /\ job' = [kind |-> kind, left |-> Mark, done |-> 0]
          /\ UNCHANGED <<stored, Msgn, PMrk, Mark, place, msgno, passed>>
      BY <2>1 DEF DoMarked
    <2>3. job' \in [kind : {"none", "delete", "move"}, left : SUBSET Mark', done : 0..MaxMsg]
          /\ job'.left = Mark /\ job'.done = 0 /\ job'.kind = kind
      BY <1>a, <2>2
    <2>4. Cardinality(Mark) \in 0..last
      BY <1>a, Ranges DEF TypeOK
    <2>5. JobInv'
      BY <1>a, <2>2, <2>3, <2>4 DEF JobInv
    <2> QED BY <2>2, <2>3, <2>5 DEF TypeOK, PlaceInv, Count, stored, place
  <1>m. pc = "job" /\ job.left # {} =>
           /\ Min(job.left) \in job.left
           /\ job.done + 1 \in 0..MaxMsg
           /\ Cardinality(job.left \ {Min(job.left)}) \in Nat
           /\ job.done + 1 + Cardinality(job.left \ {Min(job.left)}) <= MaxMsg
    <2> SUFFICES ASSUME job.left # {}
                 PROVE  /\ Min(job.left) \in job.left
                        /\ job.done + 1 \in 0..MaxMsg
                        /\ Cardinality(job.left \ {Min(job.left)}) \in Nat
                        /\ job.done + 1 + Cardinality(job.left \ {Min(job.left)}) <= MaxMsg
      OBVIOUS
    <2> DEFINE L == job.left
    <2>1. L \subseteq 1..last
      BY <1>j DEF TypeOK
    <2> HIDE DEF L
    <2>2. IsFiniteSet(L) /\ Cardinality(L) \in Nat
      <3>1. IsFiniteSet(L)
        BY <1>a, <2>1, RelnType
      <3> QED BY <3>1, FS_CardinalityType
    <2>3. L \subseteq Nat
      BY <2>1
    <2>4. Min(L) \in L
      BY <2>3, MinOf DEF L
    <2>5. Cardinality(L \ {Min(L)}) = Cardinality(L) - 1 /\ IsFiniteSet(L \ {Min(L)})
      BY <2>2, <2>4, FS_RemoveElement
    <2>6. Cardinality(L \ {Min(L)}) \in Nat
      BY <2>5, FS_CardinalityType
    <2>7. job.done \in Nat /\ job.done + Cardinality(L) <= MaxMsg
      BY <1>n, <1>a DEF L
    <2>8. job.done + 1 <= MaxMsg /\ job.done + 1 + Cardinality(L \ {Min(L)}) <= MaxMsg
      BY <1>a, <2>2, <2>5, <2>6, <2>7
    <2> QED BY <1>a, <2>4, <2>6, <2>7, <2>8 DEF L
  <1>s. ASSUME pc = "job", job.left # {}, pc' = "job", UNCHANGED Mark,
               job' = [job EXCEPT !.left = @ \ {Min(job.left)}, !.done = @ + 1]
        PROVE  /\ JobInv'
               /\ job' \in [kind : {"none", "delete", "move"}, left : SUBSET Mark', done : 0..MaxMsg]
    <2>1. job'.left = job.left \ {Min(job.left)} /\ job'.done = job.done + 1 /\ job'.kind = job.kind
      BY <1>s, <1>j DEF Jobs
    <2>2. job' \in [kind : {"none", "delete", "move"}, left : SUBSET Mark, done : 0..MaxMsg]
      BY <1>s, <1>j, <1>m DEF Jobs
    <2>3. job.kind # "none"
      BY <1>s DEF JobInv
    <2> QED BY <1>s, <1>m, <2>1, <2>2, <2>3 DEF JobInv
  <1>18. CASE JobKeep
    <2>1. pc = "job" /\ job.left # {} /\ pc' = "job"
          /\ UNCHANGED <<stored, Msgn, PMrk, Mark, place, pc, passed>>
          /\ job' = [job EXCEPT !.left = @ \ {Min(job.left)}, !.done = @ + 1]
          /\ msgno' \in Msgn \cup {msgno}
          /\ agreed' \subseteq agreed
      BY <1>18 DEF JobKeep
    <2>2. msgno' \in 0..last
      BY <2>1, <1>a DEF TypeOK
    <2> QED BY <2>1, <2>2, <1>s DEF TypeOK, PlaceInv, Count, stored, place
  <1>19. CASE JobDelete
    <2>1. pc = "job" /\ job.left # {} /\ pc' = "job"
          /\ UNCHANGED <<last, saved, received, Mark, lastreadentry, bookmark,
                         isreadpm, isreadmark, direction, pc, agreed, passed>>
          /\ job' = [job EXCEPT !.left = @ \ {Min(job.left)}, !.done = @ + 1]
          /\ msgno' = CvtReln(Msgn', lastread') /\ PMrk' \subseteq PMrk
      BY <1>19 DEF JobDelete
    <2>2. PICK m, dir : DeleteMsg(m, dir)
      BY <1>19, Zenon DEF JobDelete
    <2>3. base' \subseteq 1..last /\ Msgn' \subseteq base' /\ lastread' \in 0..MaxMsg /\ lastread' \in 0..Count'
      BY <2>1, <2>2, DeleteMsgType
    <2>4. msgno' \in 0..last
      <3>1. Msgn' \subseteq 1..last
        BY <2>3
      <3> QED BY <1>a, <2>1, <3>1, Ranges
    <2> QED BY <2>1, <2>3, <2>4, <1>s DEF TypeOK, PlaceInv
  <1>20. CASE JobDone
    BY <1>20, <1>a, <1>k, <1>q, <1>j DEF JobDone, TypeOK, PlaceInv, Count, stored, Jobs
  <1>21. CASE JobEscape
    <2>1. pc = "job" /\ pc' = "load" /\ job' = NoJob /\ agreed' = {} /\ Mark' \subseteq Mark
          /\ UNCHANGED <<stored, Msgn, PMrk, place, msgno, passed>>
      BY <1>21 DEF JobEscape
    <2>2. NoJob \in [kind : {"none", "delete", "move"}, left : SUBSET Mark', done : 0..MaxMsg]
      BY <1>j DEF Jobs
    <2> QED BY <2>1, <2>2, <1>q, <1>a DEF TypeOK, PlaceInv, Count, stored, place
  <1>22. CASE JobEscapeFirst
    <2>1. pc = "job" /\ pc' = "load" /\ job' = NoJob /\ Mark' \subseteq Mark /\ PMrk' \subseteq PMrk
          /\ UNCHANGED <<last, saved, received, lastreadentry, bookmark, isreadpm,
                         isreadmark, direction, msgno, passed>>
          /\ job.done = 0
          /\ \/ agreed' \subseteq {msgno} /\ DeleteMsg(msgno, direction)
             \/ UNCHANGED <<base, Msgn, lastread, agreed>>
      BY <1>22 DEF JobEscapeFirst
    <2>2. NoJob \in [kind : {"none", "delete", "move"}, left : SUBSET Mark', done : 0..MaxMsg]
      BY <1>j DEF Jobs
    <2>3. CASE UNCHANGED <<base, Msgn, lastread, agreed>>
      BY <2>1, <2>2, <2>3, <1>q, <1>a DEF TypeOK, PlaceInv, Count
    <2>4. CASE agreed' \subseteq {msgno} /\ DeleteMsg(msgno, direction)
      <3>1. base' \subseteq 1..last /\ Msgn' \subseteq base' /\ lastread' \in 0..MaxMsg /\ lastread' \in 0..Count'
        BY <2>1, <2>4, DeleteMsgType
      <3>2. agreed' \subseteq 1..last
        BY <2>1, <2>4 DEF TypeOK, ScreenInv
      <3> QED BY <2>1, <2>2, <3>1, <3>2, <1>q, <1>a DEF TypeOK, PlaceInv
    <2> QED BY <2>1, <2>3, <2>4
  <1>23. CASE UNCHANGED vars
    BY <1>23, <1>n, <1>p DEF vars, stored, place, TypeOK, PlaceInv, Count
  <1> QED
    BY <1>1, <1>2, <1>3, <1>4, <1>5, <1>6, <1>7, <1>8, <1>9, <1>10, <1>11, <1>12, <1>13, <1>14,
       <1>15, <1>16, <1>17, <1>18, <1>19, <1>20, <1>21, <1>22, <1>23, Zenon DEF Next
-----------------------------------------------------------------------------
\* Where the reader is in its list.
LEMMA AtIn ==
    ASSUME TypeOK, pc # "closed"
    PROVE  /\ Msgn \subseteq 1..last /\ last \in Nat /\ IsFiniteSet(Msgn)
           /\ At \in Msgn \cup {0}
           /\ CvtReln(Msgn, ToReln(Msgn, At)) = At
           /\ At # 0 => At \in Msgn /\ lastread \in 1..Count /\ ToReln(Msgn, At) = lastread
           /\ lastread \in 1..Count => At \in Msgn
           /\ Count \in 0..last
           /\ PlaceInv /\ Msgn # {} /\ lastread # 0 => lastread \in 1..Count
  <1>1. Msgn \subseteq 1..last /\ last \in Nat
    BY Bounds
  <1>2. At \in Msgn \cup {0} /\ CvtReln(Msgn, ToReln(Msgn, At)) = At
    <2>1. At \in Msgn \cup {0}
      BY <1>1, CvtFinds DEF At
    <2> QED BY <1>1, <2>1, CvtFinds
  <1>3. At # 0 => At \in Msgn /\ lastread \in 1..Count /\ ToReln(Msgn, At) = lastread
    BY <1>1, CvtFinds DEF At, Count
  <1>4. lastread \in 1..Count => At \in Msgn
    BY <1>1, CvtFinds DEF At, Count
  <1>5. IsFiniteSet(Msgn) /\ Count \in 0..last
    BY <1>1, RelnType DEF Count
  <1>6. PlaceInv /\ Msgn # {} /\ lastread # 0 => lastread \in 1..Count
    BY <1>5 DEF PlaceInv, TypeOK
  <1> QED BY <1>1, <1>2, <1>3, <1>4, <1>5, <1>6

\* DeleteMsg leaves the reader where it was, or at a neighbour of the message
\* that went.
LEMMA DeletePlace ==
    ASSUME TypeOK, pc # "closed", NEW m \in Msgn, NEW dir \in {"next", "prev"}, DeleteMsg(m, dir)
    PROVE  /\ base' = base \ {m} /\ Msgn' = Msgn \ {m}
           /\ At' \in Msgn' \cup {0}
           /\ \/ At' = At
              \/ /\ At \notin Msgn'
                 /\ \A k \in Msgn' : (k > At' => k > At) /\ (k < At' => k < At)
  <1> DEFINE to == CASE dir = "next" /\ lastread < Count -> lastread + 1
                     [] dir = "prev" /\ lastread > 1     -> lastread - 1
                     [] dir = "next" /\ lastread = Count -> lastread - 1
                     [] dir = "prev" /\ lastread <= 1    ->
                            IF lastread < Count THEN lastread + 1 ELSE 0
             q == IF At = m THEN to ELSE lastread
  <1>1. /\ base' = base \ {m} /\ Msgn' = Msgn \ {m}
        /\ lastread' = ToReln(Msgn', CvtReln(Msgn, q))
    BY Zenon DEF DeleteMsg, At
  <1>2. Msgn \subseteq 1..last /\ Msgn' \subseteq 1..last /\ last \in Nat /\ m # 0 /\ Count \in Nat
    <2>1. Msgn \subseteq 1..last /\ last \in Nat /\ Count \in 0..last
      BY AtIn
    <2>2. Msgn' \subseteq 1..last
      BY <1>1, <2>1
    <2>3. m \in 1..last
      BY <2>1
    <2> QED BY <2>1, <2>2, <2>3
  <1>3. At' = CvtReln(Msgn', lastread') /\ At' \in Msgn' \cup {0}
    BY <1>2, CvtFinds DEF At
  <1>4. ASSUME NEW t \in Msgn' \cup {0}, CvtReln(Msgn, q) = t PROVE At' = t
    <2> HIDE DEF q
    <2>1. lastread' = ToReln(Msgn', t)
      BY <1>1, <1>4
    <2>2. CvtReln(Msgn', ToReln(Msgn', t)) = t
      <3>1. CASE t = 0
        BY <1>2, <3>1, CvtFinds
      <3>2. CASE t # 0
        <4>1. t \in Msgn'
          BY <3>2
        <4> QED BY <1>2, <4>1, CvtFinds
      <3> QED BY <3>1, <3>2
    <2> QED BY <1>3, <2>1, <2>2
  <1>5. CASE At # m
    <2>1. CvtReln(Msgn, q) = At
      BY <1>5 DEF At
    <2>2. At \in Msgn' \cup {0}
      BY <1>1, <1>5, AtIn
    <2>3. At' = At
      BY <1>4, <2>1, <2>2
    <2> QED BY <1>1, <1>3, <2>3
  <1>6. CASE At = m
    <2>1. lastread \in 1..Count /\ ToReln(Msgn, m) = lastread /\ CvtReln(Msgn, lastread) = m
      BY <1>2, <1>6, AtIn DEF At
    <2>2. \/ to \in 1..Count /\ (to = lastread + 1 \/ to = lastread - 1)
          \/ Count = 1
      <3>1. CASE dir = "next" /\ lastread < Count
        BY <1>2, <2>1, <3>1
      <3>2. CASE dir = "next" /\ ~ (lastread < Count)
        <4>1. lastread = Count
          BY <1>2, <2>1, <3>2
        <4>2. to = lastread - 1
          BY <3>2, <4>1
        <4> HIDE DEF to
        <4> QED BY <1>2, <2>1, <4>1, <4>2
      <3>3. CASE dir = "prev" /\ lastread > 1
        <4>1. dir # "next" /\ ~ (lastread <= 1)
          BY <1>2, <2>1, <3>3
        <4>2. to = lastread - 1
          BY <3>3, <4>1, Zenon
        <4> HIDE DEF to
        <4> QED BY <1>2, <2>1, <3>3, <4>2
      <3>4. CASE dir = "prev" /\ ~ (lastread > 1)
        <4>1. lastread = 1 /\ lastread <= 1
          BY <1>2, <2>1, <3>4
        <4>2. to = IF lastread < Count THEN lastread + 1 ELSE 0
          BY <3>4, <4>1
        <4> HIDE DEF to
        <4> QED BY <1>2, <2>1, <4>1, <4>2
      <3> QED BY <3>1, <3>2, <3>3, <3>4
    <2> HIDE DEF to
    <2>3. q = to
      BY <1>6
    <2> HIDE DEF q
    <2>4. CASE Count = 1
      <3>1. Msgn = {m}
        BY <2>4, AtIn, FS_Singleton DEF Count
      <3>2. Msgn' = {}
        BY <1>1, <3>1
      <3> QED BY <1>1, <1>3, <1>6, <3>2
    <2>5. CASE to \in 1..Count /\ (to = lastread + 1 \/ to = lastread - 1)
      <3> DEFINE t == CvtReln(Msgn, to)
      <3>1. t \in Msgn /\ ToReln(Msgn, t) = to /\ t # 0
        <4>1. t \in Msgn
          BY <1>2, <2>5, CvtFinds DEF Count
        <4>2. t # 0
          BY <1>2, <4>1
        <4> QED BY <1>2, <4>1, <4>2, CvtFinds
      <3>2. t \in Msgn'
        <4>1. to # lastread
          BY <1>2, <2>1, <2>5
        <4> QED BY <1>1, <2>1, <3>1, <4>1
      <3>3. At' = t
        BY <1>4, <2>3, <3>2
      <3>4. ASSUME NEW k \in Msgn' PROVE (k > t => k > m) /\ (k < t => k < m)
        <4>1. k \in Msgn /\ k # m
          BY <1>1
        <4>2. /\ ToReln(Msgn, k) < to <=> k < t
              /\ to < ToReln(Msgn, k) <=> t < k
              /\ ToReln(Msgn, k) \in Nat /\ k \in Nat /\ t \in Nat
          BY <1>2, <3>1, <4>1, CvtOrder
        <4>3. /\ ToReln(Msgn, k) < lastread <=> k < m
              /\ lastread < ToReln(Msgn, k) <=> m < k
              /\ ToReln(Msgn, k) = lastread <=> k = m
              /\ m \in Nat
          <5>1. CvtReln(Msgn, lastread) # 0
            BY <1>2, <2>1
          <5>2. /\ ToReln(Msgn, k) < lastread <=> k < CvtReln(Msgn, lastread)
                /\ lastread < ToReln(Msgn, k) <=> CvtReln(Msgn, lastread) < k
                /\ ToReln(Msgn, k) = lastread <=> k = CvtReln(Msgn, lastread)
                /\ CvtReln(Msgn, lastread) \in Nat
            BY <1>2, <4>1, <5>1, CvtOrder
          <5> QED BY <2>1, <5>2
        <4>4. lastread \in Int /\ to \in Int
          BY <1>2, <2>1, <2>5
        <4> HIDE DEF t
        <4>5. k > t => k > m
          <5> SUFFICES ASSUME t < k PROVE m < k
            BY <4>2, <4>3
          <5>1. to < ToReln(Msgn, k) /\ ToReln(Msgn, k) # lastread
            BY <4>1, <4>2, <4>3
          <5>2. lastread < ToReln(Msgn, k)
            BY <2>5, <4>2, <4>4, <5>1
          <5> QED BY <4>3, <5>2
        <4>6. k < t => k < m
          <5> SUFFICES ASSUME k < t PROVE k < m
            OBVIOUS
          <5>1. ToReln(Msgn, k) < to /\ ToReln(Msgn, k) # lastread
            BY <4>1, <4>2, <4>3
          <5>2. ToReln(Msgn, k) < lastread
            BY <2>5, <4>2, <4>4, <5>1
          <5> QED BY <4>3, <5>2
        <4> QED BY <4>5, <4>6
      <3> HIDE DEF t
      <3>5. m \notin Msgn'
        BY <1>1
      <3> QED BY <1>1, <1>3, <1>6, <3>3, <3>4, <3>5
    <2> QED BY <2>2, <2>4, <2>5
  <1> QED BY <1>5, <1>6
-----------------------------------------------------------------------------
\* What a step does, told apart as far as the position is concerned: it posts,
\* opens the area, puts a message on screen, goes elsewhere, deletes, closes it,
\* or leaves the place alone.
Leaves == /\ UNCHANGED <<base, last, saved, Msgn, lastread, lastreadentry, isreadpm>>
          /\ passed \subseteq passed'
          /\ pc' = "closed" <=> pc = "closed"
Goes   == /\ pc = "read" /\ pc' = "load"
          /\ UNCHANGED <<base, last, saved, Msgn, lastreadentry>>
          /\ passed \subseteq passed'
          /\ ~isreadpm' => \A k \in Msgn : ToReln(Msgn, k) < lastread' /\ saved < k => k \in passed'
Deletes == /\ pc \in {"read", "job"} /\ pc' \in {"load", "job"}
           /\ UNCHANGED <<last, saved, lastreadentry, isreadpm, passed>>
           /\ \E m \in Msgn, dir \in {"next", "prev"} : DeleteMsg(m, dir)
Shuts  == /\ pc = "read" /\ pc' = "closed" /\ UNCHANGED <<base, Msgn>>
          /\ \E reln \in {0, lastread} : Closing(reln)

\* A job begins on the message on screen, and counts what it does.
JobSteps == pc' = "job" => \/ pc = "read" /\ Msgn # {} /\ UNCHANGED <<Msgn, lastread, msgno>>
                           \/ pc = "job" /\ job'.done # 0
                           \/ UNCHANGED <<Msgn, lastread, msgno, pc, job>>

\* Every step is one of these.
LEMMA StepKinds ==
    ASSUME IInv, [Next]_vars
    PROVE  /\ \/ Post \/ (pc = "closed" /\ pc' = "closed") \/ Open
              \/ LoadMessage \/ Leaves \/ Goes \/ Deletes \/ Shuts
           /\ pc' = "read" => LoadMessage \/ UNCHANGED <<Msgn, lastread, msgno, pc>>
           /\ JobSteps
  <1> DEFINE Kinds == \/ Post \/ (pc = "closed" /\ pc' = "closed") \/ Open
                      \/ LoadMessage \/ Leaves \/ Goes \/ Deletes \/ Shuts
             Screens == pc' = "read" => LoadMessage \/ UNCHANGED <<Msgn, lastread, msgno, pc>>
  <1>t. TypeOK /\ OnScreen /\ ScreenInv /\ PassedInv
    BY DEF IInv
  <1>a. pc # "closed" => /\ Msgn \subseteq 1..last /\ last \in Nat
                         /\ At \in Msgn \cup {0}
                         /\ At # 0 => At \in Msgn /\ lastread \in 1..Count /\ ToReln(Msgn, At) = lastread
                         /\ Count \in 0..last
    BY <1>t, AtIn
  \* Going where everything before it is passed over ...
  <1>g. ASSUME pc = "read", pc' = "load", UNCHANGED <<base, last, saved, Msgn, lastreadentry>>,
               \/ passed' = passed \cup JumpedOver(lastread') /\ isreadpm' = isreadpm
               \/ passed' = IF isreadpm' THEN passed
                            ELSE passed \cup {m \in Msgn : ToReln(Msgn, m) <= lastread'}
        PROVE  Kinds /\ Screens /\ JobSteps
    <2>1. passed \subseteq passed'
      BY <1>g
    <2>2. ASSUME ~isreadpm', NEW k \in Msgn, ToReln(Msgn, k) < lastread' PROVE k \in passed'
      <3>1. ToReln(Msgn, k) <= lastread'
        <4>1. lastread' \in 0..MaxMsg /\ MaxMsg \in Nat
          BY TypeStep, MessageAssumption DEF IInv, TypeOK
        <4>2. ToReln(Msgn, k) \in 0..Count /\ Count \in Nat
          BY <1>a, <1>g, Ranges DEF Count
        <4> QED BY <2>2, <4>1, <4>2
      <3> QED BY <1>g, <2>2, <3>1 DEF JumpedOver
    <2> QED BY <1>g, <2>1, <2>2 DEF Goes, JobSteps
  \* ... and leaving the place alone.
  <1>l. ASSUME Leaves, pc' # "read" \/ UNCHANGED <<msgno, pc>>, JobSteps
        PROVE  Kinds /\ Screens /\ JobSteps
    BY <1>l DEF Leaves
  <1>1. CASE Post
    <2>1. UNCHANGED <<Msgn, lastread, msgno, pc, job>>
      BY <1>1, Zenon DEF Post, place
    <2> QED BY <1>1, <2>1 DEF JobSteps
  <1>2. CASE \E m \in base : Purge(m)
    BY <1>2 DEF Purge, JobSteps
  <1>3. CASE ScanPM
    BY <1>3 DEF ScanPM, JobSteps
  <1>4. CASE Open
    BY <1>4 DEF Open, JobSteps
  <1>5. CASE LoadMessage
    BY <1>5 DEF LoadMessage, JobSteps
  <1>6. CASE Close
    BY <1>6 DEF Close, Closing, Shuts, JobSteps
  <1>7. ASSUME NEW dir \in {"next", "prev"}, GoNextMsg(dir)
        PROVE  Kinds /\ Screens /\ JobSteps
    <2>1. pc = "read" /\ pc' = "load" /\ isreadpm' = isreadpm
          /\ UNCHANGED <<base, last, saved, Msgn, lastreadentry>>
      BY <1>7, Zenon DEF GoNextMsg, GoTo, stored
    <2>2. CASE isreadpm \/ isreadmark
      <3>1. passed' = passed \cup JumpedOver(lastread')
        BY <1>7, <2>2, Zenon DEF GoNextMsg
      <3> QED BY <1>g, <2>1, <3>1
    <2>3. CASE ~ (isreadpm \/ isreadmark)
      <3>1. passed' = passed /\ lastread' = next_msg(dir) /\ next_msg(dir) # 0
        BY <1>7, <2>3, Zenon DEF GoNextMsg, GoTo
      <3>2. lastread' = IF dir = "next" THEN lastread + 1 ELSE lastread - 1
        BY <3>1 DEF next_msg
      <3>3. lastread \in 0..MaxMsg /\ MaxMsg \in Nat
        BY <1>t, Bounds DEF TypeOK
      <3>4. ASSUME NEW k \in Msgn, ToReln(Msgn, k) < lastread', saved < k PROVE k \in passed
        <4>1. ToReln(Msgn, k) \in 1..Count /\ ToReln(Msgn, k) <= lastread
          <5>1. ToReln(Msgn, k) \in 1..Count /\ Count \in Nat
            BY <1>a, <2>1, RelnType DEF Count
          <5> QED BY <3>2, <3>3, <3>4, <5>1
        <4>2. lastread \in 1..Count
          <5>1. Count \in Nat /\ lastread >= 1
            BY <1>a, <2>1, <3>3, <4>1
          <5>2. PlaceInv /\ Msgn # {}
            BY DEF IInv
          <5> QED BY <1>t, <2>1, <3>3, <5>1, <5>2, AtIn
        <4>3. At \in Msgn /\ ToReln(Msgn, At) = lastread /\ At # 0
          <5>1. At \in Msgn
            BY <1>t, <2>1, <4>2, AtIn
          <5>2. At # 0
            BY <1>a, <2>1, <5>1
          <5> QED BY <1>a, <2>1, <5>1, <5>2
        <4>4. k < At \/ k = At
          <5>1. /\ ToReln(Msgn, k) < lastread <=> k < At
                /\ ToReln(Msgn, k) = lastread <=> k = At
            BY <1>a, <2>1, <4>3, CvtOrder DEF At
          <5> QED BY <4>1, <4>2, <5>1
        <4> QED BY <1>t, <2>1, <2>3, <3>4, <4>4 DEF PassedInv
      <3> QED BY <2>1, <3>1, <3>4 DEF Goes, JobSteps
    <2> QED BY <2>2, <2>3
  <1>8. ASSUME NEW dir \in {"next", "prev"}, GoNextArea(dir)
        PROVE  Kinds /\ Screens /\ JobSteps
    <2> DEFINE tag == IF isreadpm THEN PMrk ELSE Mark
               marked == isreadpm \/ isreadmark
               reln == CASE marked /\ tag # {} -> ToReln(Msgn, NextMarked(tag, msgno, dir).to)
                         [] ~marked /\ dir = "prev" /\ ToReln(Msgn, msgno) = 1 -> 0
                         [] OTHER -> lastread
    <2>1. pc = "read" /\ pc' = "closed" /\ UNCHANGED <<base, Msgn>> /\ Closing(reln)
          /\ (marked => ~NextMarked(tag, msgno, dir).found)
      BY <1>8, Zenon DEF GoNextArea, Closing
    <2>2. CASE marked /\ tag # {}
      <3>1. tag \subseteq 1..MaxMsg /\ MaxMsg \in Nat
        <4>1. PMrk \subseteq 1..MaxMsg
          BY <1>t, MessageAssumption DEF TypeOK
        <4>2. Mark \subseteq 1..MaxMsg /\ MaxMsg \in Nat
          <5>1. Mark \subseteq 1..last /\ last \in Nat /\ last <= MaxMsg /\ MaxMsg \in Nat
            BY <1>t, Bounds DEF TypeOK
          <5> QED BY <5>1
        <4> QED BY <4>1, <4>2
      <3>2. NextMarked(tag, msgno, dir).to = msgno /\ msgno \in tag
        <4> HIDE DEF tag
        <4> QED BY <2>1, <2>2, <3>1, NextMarkedIn
      <3>3. msgno = At /\ msgno # 0
        <4> HIDE DEF tag
        <4> QED BY <1>t, <2>1, <3>1, <3>2 DEF OnScreen
      <3>4. reln = lastread
        <4>1. reln = ToReln(Msgn, NextMarked(tag, msgno, dir).to)
          BY <2>2
        <4>2. ToReln(Msgn, At) = lastread
          BY <1>a, <2>1, <3>3
        <4> HIDE DEF reln, tag, marked
        <4> QED BY <3>2, <3>3, <4>1, <4>2
      <3> HIDE DEF reln
      <3> QED BY <2>1, <3>4 DEF Shuts, JobSteps
    <2>3. CASE ~ (marked /\ tag # {})
      <3>1. reln \in {0, lastread}
        BY <2>3
      <3> HIDE DEF reln
      <3> QED BY <2>1, <3>1 DEF Shuts, JobSteps
    <2> QED BY <2>2, <2>3
  <1>9. CASE \E dir \in {"next", "prev"} : StayHere(dir)
    <2>1. Leaves /\ UNCHANGED <<Msgn, lastread, msgno, pc, job>>
      BY <1>9 DEF StayHere, Leaves, stored
    <2> QED BY <1>l, <2>1 DEF JobSteps
  <1>10. CASE \E dir \in {"next", "prev"} : GotoEnd(dir)
    <2>1. pc = "read" /\ pc' = "load" /\ UNCHANGED <<base, last, saved, Msgn, lastreadentry>>
          /\ passed' = passed \cup JumpedOver(lastread') /\ isreadpm' = isreadpm
      BY <1>10, Zenon DEF GotoEnd, GoTo, stored
    <2> QED BY <1>g, <2>1
  <1>11. CASE \E reln \in 1..Count : GotoMsgno(reln)
    <2>1. pc = "read" /\ pc' = "load" /\ UNCHANGED <<base, last, saved, Msgn, lastreadentry>>
          /\ passed' = passed \cup JumpedOver(lastread') /\ isreadpm' = isreadpm
      BY <1>11, Zenon DEF GotoMsgno, GoTo, stored
    <2> QED BY <1>g, <2>1
  <1>12. CASE GotoBookMark
    <2>1. pc = "read" /\ pc' = "load" /\ UNCHANGED <<base, last, saved, Msgn, lastreadentry>>
          /\ passed' = passed \cup JumpedOver(lastread') /\ isreadpm' = isreadpm
      BY <1>12, Zenon DEF GotoBookMark, GoTo, stored
    <2> QED BY <1>g, <2>1
  <1>13. CASE ToggleMarkRead
    <2>1. pc = "read" /\ pc' = "load" /\ UNCHANGED <<base, last, saved, Msgn, lastreadentry>>
          /\ passed' = IF isreadpm' THEN passed
                       ELSE passed \cup {m \in Msgn : ToReln(Msgn, m) <= lastread'}
      BY <1>13, Zenon DEF ToggleMarkRead, GoTo, stored
    <2> QED BY <1>g, <2>1
  <1>14. CASE ToggleMark
    <2>1. Leaves /\ UNCHANGED <<Msgn, lastread, msgno, pc, job>>
      BY <1>14 DEF ToggleMark, Leaves, stored, place
    <2> QED BY <1>l, <2>1 DEF JobSteps
  <1>15. ASSUME NEW kind \in {"delete", "move"}, DoCurrent(kind)
         PROVE  Kinds /\ Screens /\ JobSteps
    <2>1. pc = "read" /\ pc' = "load" /\ Msgn # {}
          /\ UNCHANGED <<last, saved, lastreadentry, isreadpm, passed>>
          /\ DeleteMsg(msgno, IF kind = "delete" THEN direction ELSE "prev")
      BY <1>15, Zenon DEF DoCurrent
    <2>2. msgno \in Msgn
      BY <1>a, <1>t, <2>1 DEF OnScreen
    <2>3. (IF kind = "delete" THEN direction ELSE "prev") \in {"next", "prev"}
      BY <1>t DEF TypeOK
    <2>4. Deletes
      BY <2>1, <2>2, <2>3, Zenon DEF Deletes
    <2> QED BY <2>1, <2>4 DEF JobSteps
  <1>16. CASE DoNotDelete
    <2>1. Leaves /\ pc' = "load"
      BY <1>16 DEF DoNotDelete, Leaves, stored, place
    <2> QED BY <1>l, <2>1 DEF JobSteps
  <1>17. CASE \E kind \in {"delete", "move"} : DoMarked(kind)
    <2>1. Leaves /\ pc' = "job" /\ pc = "read" /\ Msgn # {} /\ UNCHANGED <<Msgn, lastread, msgno>>
      BY <1>17 DEF DoMarked, Leaves, stored, place
    <2> QED BY <1>l, <2>1 DEF JobSteps
  <1>j. ASSUME job' = [job EXCEPT !.left = @ \ {Min(job.left)}, !.done = @ + 1]
        PROVE  job'.done # 0
    <2>1. job \in Jobs(Mark) /\ MaxMsg \in Nat
      BY <1>t, Bounds DEF TypeOK, Jobs
    <2>2. job'.done = job.done + 1 /\ job.done \in 0..MaxMsg
      BY <1>j, <2>1 DEF Jobs
    <2> QED BY <2>1, <2>2
  <1>18. CASE JobKeep
    <2>1. Leaves /\ pc' = "job" /\ pc = "job"
          /\ job' = [job EXCEPT !.left = @ \ {Min(job.left)}, !.done = @ + 1]
      BY <1>18 DEF JobKeep, Leaves, stored, place
    <2> QED BY <1>l, <1>j, <2>1 DEF JobSteps
  <1>19. CASE JobDelete
    <2>1. pc = "job" /\ pc' = "job"
          /\ UNCHANGED <<last, saved, lastreadentry, isreadpm, passed>>
          /\ job' = [job EXCEPT !.left = @ \ {Min(job.left)}, !.done = @ + 1]
          /\ Min(job.left) \in Msgn
          /\ DeleteMsg(Min(job.left), IF job.kind = "delete" THEN direction ELSE "prev")
      BY <1>19, Zenon DEF JobDelete
    <2>2. (IF job.kind = "delete" THEN direction ELSE "prev") \in {"next", "prev"}
      BY <1>t DEF TypeOK
    <2>3. Deletes
      BY <2>1, <2>2, Zenon DEF Deletes
    <2> QED BY <2>1, <2>3, <1>j DEF JobSteps
  <1>20. CASE JobDone
    <2>1. Leaves /\ pc' = "load"
      BY <1>20 DEF JobDone, Leaves, stored
    <2> QED BY <1>l, <2>1 DEF JobSteps
  <1>21. CASE JobEscape
    <2>1. Leaves /\ pc' = "load"
      BY <1>21 DEF JobEscape, Leaves, stored, place
    <2> QED BY <1>l, <2>1 DEF JobSteps
  <1>22. CASE JobEscapeFirst
    <2>1. pc = "job" /\ pc' = "load" /\ job.done = 0
          /\ UNCHANGED <<last, saved, lastreadentry, isreadpm, passed>>
          /\ (DeleteMsg(msgno, direction) \/ UNCHANGED <<base, Msgn, lastread>>)
      BY <1>22, Zenon DEF JobEscapeFirst
    <2>2. msgno \in Msgn
      BY <1>a, <1>t, <2>1 DEF ScreenInv
    <2>3. CASE DeleteMsg(msgno, direction)
      <3>1. direction \in {"next", "prev"}
        BY <1>t DEF TypeOK
      <3>2. Deletes
        BY <2>1, <2>2, <2>3, <3>1, Zenon DEF Deletes
      <3> QED BY <2>1, <3>2 DEF JobSteps
    <2>4. CASE UNCHANGED <<base, Msgn, lastread>>
      <3>1. Leaves
        BY <2>1, <2>4 DEF Leaves
      <3> QED BY <1>l, <2>1, <3>1 DEF JobSteps
    <2> QED BY <2>1, <2>3, <2>4
  <1>23. CASE UNCHANGED vars
    <2>1. Leaves /\ UNCHANGED <<Msgn, lastread, msgno, pc, job>>
      BY <1>23 DEF vars, stored, place, Leaves
    <2> QED BY <1>l, <2>1 DEF JobSteps
  <1> QED
    BY <1>1, <1>2, <1>3, <1>4, <1>5, <1>6, <1>7, <1>8, <1>9, <1>10, <1>11, <1>12, <1>13, <1>14,
       <1>15, <1>16, <1>17, <1>18, <1>19, <1>20, <1>21, <1>22, <1>23, Zenon DEF Next

LEMMA ScreenStep ==
    ASSUME IInv, [Next]_vars
    PROVE  OnScreen' /\ ScreenInv'
  <1>t. TypeOK /\ OnScreen /\ ScreenInv /\ PlaceInv
    BY DEF IInv
  <1>1. OnScreen'
    <2>1. CASE pc' # "read"
      BY <2>1 DEF OnScreen
    <2>2. CASE UNCHANGED <<Msgn, lastread, msgno, pc>>
      BY <1>t, <2>2 DEF OnScreen, At
    <2>3. CASE LoadMessage
      <3> DEFINE q == IF Msgn # {} /\ lastread = 0 THEN 1 ELSE lastread
      <3>1. pc = "load" /\ Msgn' = Msgn /\ msgno' = CvtReln(Msgn, q) /\ lastread' = ToReln(Msgn, msgno')
        BY <2>3 DEF LoadMessage
      <3>2. Msgn \subseteq 1..last /\ last \in Nat /\ Count \in Nat /\ (Msgn # {} => Count # 0)
        <4>1. Msgn \subseteq 1..last /\ last \in Nat /\ IsFiniteSet(Msgn) /\ Count \in 0..last
          BY <1>t, <3>1, AtIn
        <4> QED BY <4>1, FS_EmptySet DEF Count
      <3>3. Msgn # {} => q \in 1..Count
        BY <1>t, <3>1, <3>2, AtIn
      <3> HIDE DEF q
      <3>4. Msgn # {} => msgno' \in Msgn
        BY <3>1, <3>2, <3>3, CvtFinds DEF Count
      <3>5. CvtReln(Msgn, ToReln(Msgn, msgno')) = msgno'
        <4>1. msgno' \in Msgn \cup {0}
          BY <3>1, <3>2, CvtFinds
        <4>2. CASE msgno' = 0
          BY <3>2, <4>2, CvtFinds
        <4>3. CASE msgno' \in Msgn
          BY <3>2, <4>3, CvtFinds
        <4> QED BY <4>1, <4>2, <4>3
      <3>6. msgno' = At'
        BY <3>1, <3>5 DEF At
      <3>7. msgno' = 0 => Msgn' = {}
        BY <3>1, <3>2, <3>4
      <3> QED BY <3>6, <3>7 DEF OnScreen
    <2> QED BY <2>1, <2>2, <2>3, StepKinds
  <1>2. ScreenInv'
    <2> SUFFICES ASSUME pc' = "job", (job').done = 0 PROVE msgno' = At' /\ msgno' # 0
      BY DEF ScreenInv
    <2>1. CASE pc = "read" /\ Msgn # {} /\ UNCHANGED <<Msgn, lastread, msgno>>
      BY <1>t, <2>1 DEF OnScreen, At
    <2>2. CASE UNCHANGED <<Msgn, lastread, msgno, pc, job>>
      BY <1>t, <2>2 DEF ScreenInv, At
    <2> QED BY <2>1, <2>2, StepKinds DEF JobSteps
  <1> QED BY <1>1, <1>2

\* What is not listed has been posted since: only deleting takes away.
LEMMA NewStep ==
    ASSUME IInv, [Next]_vars
    PROVE  NewInv' /\ EntryInv'
  <1>t. TypeOK /\ NewInv /\ EntryInv /\ saved \in 0..last
    BY DEF IInv, TypeOK
  <1>a. last \in Nat /\ base \subseteq 1..last /\ (pc # "closed" => Msgn \subseteq 1..last)
    BY <1>t, Bounds
  <1>u. ASSUME pc # "closed", saved' = saved, lastreadentry' = lastreadentry,
               base' \ Msgn' \subseteq base \ Msgn, base' \subseteq base, Msgn' \subseteq Msgn
        PROVE  NewInv' /\ EntryInv'
    BY <1>t, <1>u DEF NewInv, EntryInv
  <1>c. ASSUME pc' = "closed" PROVE NewInv' /\ EntryInv'
    BY <1>c DEF NewInv, EntryInv
  <1>1. CASE Post
    <2>1. base' = base \cup {last + 1}
          /\ UNCHANGED <<saved, Msgn, lastreadentry, pc>>
      BY <1>1 DEF Post, place
    <2>2. last + 1 \notin base /\ last + 1 > saved /\ last + 1 # saved
          /\ (pc # "closed" => \A k \in Msgn : k < last + 1)
      BY <1>t, <1>a
    <2>3. ASSUME pc # "closed", NEW m \in base' \ Msgn PROVE m > saved /\ \A k \in Msgn : k < m
      BY <1>t, <2>1, <2>2, <2>3 DEF NewInv
    <2>4. NewInv'
      BY <2>1, <2>3 DEF NewInv
    <2>5. EntryInv'
      BY <1>t, <2>1, <2>2 DEF EntryInv
    <2> QED BY <2>4, <2>5
  <1>2. CASE Open
    <2>1. Msgn' = base /\ base' = base /\ saved' = saved /\ lastreadentry' = ScanLastreadEntry
      BY <1>2 DEF Open, stored
    <2>2. saved \in base => ScanLastreadEntry = saved
      BY <1>a, ScanType
    <2> QED BY <2>1, <2>2 DEF NewInv, EntryInv
  <1>3. CASE LoadMessage
    <2>1. pc # "closed" /\ UNCHANGED <<base, saved, Msgn, lastreadentry>>
      BY <1>3 DEF LoadMessage
    <2> QED BY <1>u, <2>1
  <1>4. CASE Leaves
    <2>1. CASE pc' = "closed"
      BY <1>c, <2>1
    <2>2. CASE pc' # "closed"
      BY <1>4, <1>u, <2>2 DEF Leaves
    <2> QED BY <2>1, <2>2
  <1>5. CASE Goes
    BY <1>5, <1>u DEF Goes
  <1>6. CASE Deletes
    <2>1. PICK m \in Msgn, dir \in {"next", "prev"} : DeleteMsg(m, dir)
      BY <1>6 DEF Deletes
    <2>2. base' = base \ {m} /\ Msgn' = Msgn \ {m}
      BY <2>1 DEF DeleteMsg
    <2> QED BY <1>6, <1>u, <2>2 DEF Deletes
  <1>7. CASE Shuts
    BY <1>7, <1>c DEF Shuts
  <1> QED BY <1>1, <1>2, <1>3, <1>4, <1>5, <1>6, <1>7, <1>c, StepKinds

\* Everything before the position has been passed: going on passes the message on
\* screen, and jumping all those before.
LEMMA PassedStep ==
    ASSUME IInv, [Next]_vars
    PROVE  PassedInv'
  <1>t. TypeOK /\ PassedInv /\ OnScreen /\ PlaceInv /\ TypeOK'
    BY TypeStep DEF IInv
  <1>a. last \in Nat /\ MaxMsg \in Nat /\ base \subseteq 1..last /\ saved \in 0..last
        /\ (pc # "closed" => Msgn \subseteq 1..last)
    BY <1>t, Bounds DEF TypeOK
  <1>b. lastread' \in Nat
    BY <1>t, <1>a DEF TypeOK
  <1>s. ASSUME pc' = "closed" \/ isreadpm' PROVE PassedInv'
    BY <1>s DEF PassedInv
  <1>1. CASE Post
    <2>1. UNCHANGED <<saved, Msgn, lastread, isreadpm, pc, passed>>
      BY <1>1 DEF Post, place
    <2> QED BY <1>t, <2>1 DEF PassedInv, At
  <1>2. CASE Open
    <2>1. Msgn' = base /\ saved' = saved /\ pc' = "load"
      BY <1>2 DEF Open, stored
    <2>2. ASSUME ~isreadpm', NEW m \in base, saved < m, m < At' PROVE FALSE
      <3>1. lastread' = ScanLastread \/ lastread' = ScanLastread + 1
        BY <1>2, <2>2 DEF Open
      <3>2. At' = CvtReln(base, lastread') /\ m \in Nat
        BY <1>a, <2>1 DEF At
      <3>3. CvtReln(base, lastread') # 0
        BY <2>2, <3>2
      <3>4. ToReln(base, m) < lastread' /\ ToReln(base, m) \in Nat
        BY <1>a, <2>2, <3>2, <3>3, CvtOrder
      <3>5. ToReln(base, m) = Rank(base, m) /\ IsFiniteSet(base) /\ base \subseteq Int
        BY <1>a, RelnType
      <3>6. Rank(base, saved) < Rank(base, m)
        <4>1. saved \in Int /\ m \in Int /\ saved <= m
          BY <1>a, <2>2, <3>2
        <4> QED BY <2>2, <3>5, <4>1, RankRises
      <3>7. ScanLastread = Rank(base, saved) /\ ScanLastread \in Nat
        <4>1. ScanLastread = Rank(base, saved)
          BY DEF ScanLastread, Rank
        <4>2. ScanLastread \in 0..Cardinality(base)
          BY <1>a, ScanType
        <4> QED BY <4>1, <4>2
      <3> QED BY <3>1, <3>4, <3>5, <3>6, <3>7
    <2> QED BY <2>1, <2>2 DEF PassedInv
  <1>3. CASE LoadMessage
    <2> DEFINE q == IF Msgn # {} /\ lastread = 0 THEN 1 ELSE lastread
    <2>1. pc = "load" /\ Msgn' = Msgn /\ msgno' = CvtReln(Msgn, q) /\ saved' = saved
          /\ isreadpm' = isreadpm /\ passed' = passed \cup ({msgno'} \cap Msgn) /\ pc' = "read"
      BY <1>3 DEF LoadMessage
    <2>2. At' = CvtReln(Msgn, q)
      BY <2>1, ScreenStep DEF OnScreen
    <2>3. ASSUME ~isreadpm, NEW m \in Msgn, saved < m, m < At' PROVE m \in passed'
      <3>1. CASE q = lastread
        <4>1. At' = At
          BY <2>2, <3>1 DEF At
        <4> QED BY <1>t, <2>1, <2>3, <4>1 DEF PassedInv
      <3>2. CASE q # lastread
        <4>1. q = 1
          BY <3>2
        <4> HIDE DEF q
        <4>2. CvtReln(Msgn, 1) # 0
          BY <1>a, <2>1, <2>2, <2>3, <4>1
        <4>3. ToReln(Msgn, m) < 1 /\ ToReln(Msgn, m) \in 1..Cardinality(Msgn)
          BY <1>a, <2>1, <2>2, <2>3, <4>1, <4>2, CvtOrder, RelnType
        <4> QED BY <4>3
      <3> QED BY <3>1, <3>2
    <2>4. ASSUME NEW m \in Msgn, m = At' PROVE m \in passed'
      BY <2>1, <2>2, <2>4
    <2> QED BY <2>1, <2>3, <2>4 DEF PassedInv
  <1>4. CASE Leaves
    <2>1. CASE pc' # "read" \/ pc = "read"
      BY <1>4, <1>t, <2>1 DEF Leaves, PassedInv, At
    <2>2. CASE pc' = "read" /\ pc # "read"
      <3>1. LoadMessage
        BY <2>2, StepKinds
      <3> QED BY <1>3, <3>1
    <2> QED BY <2>1, <2>2
  <1>5. CASE Goes
    <2>1. pc = "read" /\ pc' = "load" /\ Msgn' = Msgn /\ saved' = saved
      BY <1>5 DEF Goes
    <2>2. ASSUME ~isreadpm', NEW m \in Msgn, saved < m, m < At' PROVE m \in passed'
      <3>1. At' = CvtReln(Msgn, lastread') /\ At' # 0
        BY <1>a, <2>1, <2>2 DEF At
      <3>2. ToReln(Msgn, m) < lastread'
        BY <1>a, <2>1, <2>2, <3>1, CvtOrder
      <3> QED BY <1>5, <2>2, <3>2 DEF Goes
    <2> QED BY <2>1, <2>2 DEF PassedInv
  <1>6. CASE Deletes
    <2>1. PICK m \in Msgn, dir \in {"next", "prev"} : DeleteMsg(m, dir)
      BY <1>6 DEF Deletes
    <2>2. pc # "closed" /\ pc' # "read" /\ UNCHANGED <<saved, isreadpm, passed>>
      BY <1>6 DEF Deletes
    <2>3. /\ Msgn' = Msgn \ {m}
          /\ \/ At' = At
             \/ \A k \in Msgn' : k < At' => k < At
      BY <1>t, <2>1, <2>2, DeletePlace
    <2> QED BY <1>t, <2>2, <2>3 DEF PassedInv
  <1>7. CASE Shuts
    BY <1>7, <1>s DEF Shuts
  <1> QED BY <1>1, <1>2, <1>3, <1>4, <1>5, <1>6, <1>7, <1>s, StepKinds
-----------------------------------------------------------------------------
LEMMA InvInit == Init => IInv
  <1> SUFFICES ASSUME Init PROVE IInv
    OBVIOUS
  <1>1. TypeOK
    <2>1. last \in 0..MaxMsg /\ base = 1..last /\ saved \in 0..last /\ passed \subseteq 1..last
          /\ MaxMsg \in Nat
      BY MessageAssumption DEF Init
    <2>2. job \in [kind : {"none", "delete", "move"}, left : SUBSET Mark, done : 0..MaxMsg]
      BY <2>1 DEF Init, NoJob
    <2>3. isreadpm \in BOOLEAN /\ isreadmark \in BOOLEAN
      BY DEF Init
    <2>4. /\ received = {} /\ Mark = {} /\ PMrk = {} /\ agreed = {} /\ pc = "closed"
          /\ lastread = 0 /\ lastreadentry = 0 /\ bookmark = 0 /\ msgno = 0 /\ direction = "next"
      BY DEF Init
    <2> QED BY <2>1, <2>2, <2>3, <2>4 DEF TypeOK
  <1>2. JobInv
    BY MessageAssumption, FS_EmptySet DEF Init, JobInv, NoJob
  <1> QED BY <1>1, <1>2
        DEF Init, IInv, PlaceInv, OnScreen, ScreenInv, NewInv, PassedInv, EntryInv

LEMMA InvStep == IInv /\ [Next]_vars => IInv'
  <1> SUFFICES ASSUME IInv, [Next]_vars PROVE IInv'
    OBVIOUS
  <1>1. TypeOK' /\ JobInv' /\ PlaceInv'
    BY TypeStep DEF IInv
  <1> QED BY <1>1, ScreenStep, NewStep, PassedStep DEF IInv

LEMMA Invariance == Spec => []IInv
  BY InvInit, InvStep, PTL DEF Spec

\* The reader lists what is in the base, its position is in the list, and the
\* marks and numbers it keeps are those of messages.
THEOREM ReaderTypes == Spec => []TypeOK
  <1>1. IInv => TypeOK
    BY DEF IInv
  <1> QED BY <1>1, Invariance, PTL

\* The message on screen, which every command is about, is that of the lastread.
THEOREM ReaderOnScreen == Spec => []OnScreen
  <1>1. IInv => OnScreen
    BY DEF IInv
  <1> QED BY <1>1, Invariance, PTL

\* Area::DeleteMsg: deleting leaves the reader where it was, or at a neighbour.
THEOREM ReaderKeepsPlace == Spec => PlaceKept
  <1>1. ASSUME IInv, [Next]_vars
        PROVE  [pc # "closed" /\ Msgn' # Msgn =>
                  \/ At' = At
                  \/ /\ At \notin Msgn'
                     /\ \A m \in Msgn' : (m > At' => m > At) /\ (m < At' => m < At)]_vars
    <2> SUFFICES ASSUME pc # "closed", Msgn' # Msgn
                 PROVE  \/ At' = At
                        \/ /\ At \notin Msgn'
                           /\ \A m \in Msgn' : (m > At' => m > At) /\ (m < At' => m < At)
      OBVIOUS
    <2>1. Deletes
      BY <1>1, StepKinds DEF Post, Open, LoadMessage, Leaves, Goes, Shuts
    <2>2. PICK m \in Msgn, dir \in {"next", "prev"} : DeleteMsg(m, dir)
      BY <2>1 DEF Deletes
    <2>3. TypeOK
      BY <1>1 DEF IInv
    <2> QED BY <2>2, <2>3, DeletePlace
  <1> QED BY <1>1, Invariance, PTL DEF Spec, PlaceKept

\* Area::Close and save_lastread: what is left behind as read has been seen, or
\* jumped over.
THEOREM ReaderSkipsNothing == Spec => NothingSkipped
  <1>1. ASSUME IInv, [Next]_vars
        PROVE  [pc # "closed" /\ ~isreadpm =>
                  \A m \in base : saved < m /\ m <= saved' => m \in passed]_vars
    <2> SUFFICES ASSUME pc # "closed", ~isreadpm, NEW m \in base, saved < m, m <= saved'
                 PROVE  m \in passed
      OBVIOUS
    <2>t. TypeOK /\ NewInv /\ PassedInv /\ TypeOK'
      BY <1>1, TypeStep DEF IInv
    <2>a. last \in Nat /\ saved \in 0..last /\ base \subseteq 1..last /\ Msgn \subseteq 1..last
          /\ saved' \in Nat /\ m \in Nat
      <3>1. last \in Nat /\ saved \in 0..last /\ base \subseteq 1..last /\ Msgn \subseteq 1..last
        BY <2>t, Bounds DEF TypeOK
      <3>2. last' \in Nat /\ saved' \in 0..last'
        BY <2>t, MessageAssumption DEF TypeOK
      <3> QED BY <3>1, <3>2
    <2>1. saved' # saved
      BY <2>a
    <2>2. Shuts
      BY <1>1, <2>1, StepKinds DEF Post, Open, LoadMessage, Leaves, Goes, Deletes, stored
    <2>3. PICK reln \in {0, lastread} : Closing(reln)
      BY <2>2 DEF Shuts
    <2>4. saved' = CvtReln(Msgn, reln)
      BY <2>3 DEF Closing
    <2>5. CvtReln(Msgn, 0) = 0
      BY <2>a, CvtFinds
    <2>6. saved' = At /\ saved' # 0 /\ At \in Msgn
      <3>1. saved' # 0
        BY <2>a
      <3>2. saved' = At
        BY <2>3, <2>4, <2>5, <3>1 DEF At
      <3> QED BY <2>t, <3>1, <3>2, AtIn
    <2>7. m \in Msgn
      BY <2>a, <2>t, <2>6 DEF NewInv
    <2>8. pc = "read"
      BY <2>2 DEF Shuts
    <2> QED BY <2>a, <2>t, <2>6, <2>7, <2>8 DEF PassedInv
  <1> QED BY <1>1, Invariance, PTL DEF Spec, NothingSkipped

\* Area::Close: whoever leaves from personal mail finds the lastread where it was.
THEOREM ReaderRestoresPm == Spec => PmRestored
  <1>1. ASSUME IInv, [Next]_vars
        PROVE  [pc = "read" /\ pc' = "closed" /\ isreadpm /\ saved \in base =>
                  saved' = saved]_vars
    <2> SUFFICES ASSUME pc = "read", pc' = "closed", isreadpm, saved \in base
                 PROVE  saved' = saved
      OBVIOUS
    <2>t. TypeOK /\ NewInv /\ EntryInv
      BY <1>1 DEF IInv
    <2>a. last \in Nat /\ Msgn \subseteq 1..last /\ saved \in Nat
      BY <2>t, Bounds DEF TypeOK
    <2>1. Shuts
      BY <1>1, StepKinds DEF Post, Open, LoadMessage, Leaves, Goes, Deletes
    <2>2. PICK reln : Closing(reln)
      BY <2>1 DEF Shuts
    <2>3. saved' = CvtReln(Msgn, ToReln(Msgn, lastreadentry))
      BY <2>2 DEF Closing
    <2>4. lastreadentry = saved /\ saved \in Msgn
      BY <2>a, <2>t DEF EntryInv, NewInv
    <2> QED BY <2>a, <2>3, <2>4, CvtFinds
  <1> QED BY <1>1, Invariance, PTL DEF Spec, PmRestored
-----------------------------------------------------------------------------
\* The marking menu (Marks), for any granularity of the arrays and whatever fresh
\* memory holds.
\*
\* Held is the inductive invariant: what is being read, and marks that are numbers
\* of messages in ascending order, with a cell after the last.  The lemmas before
\* it say what each operation on cells comes to as one on the set of the numbers
\* in them; the recursions of the model (the bisection, the walk of a toggle, the
\* threads, the marks added one after another) are shown to exist first, and then
\* to do their work step by step.

\* The shape of arrays, resizing and moving.

\* What a cell may hold, and the records arrays are.
Cells  == Msgno \cup Junk
Tables == [tag : Seq(Cells), tags : Nat, count : Nat]

\* An array with numbers of messages in its live cells, of which there is one
\* less than there are cells at least, or none at all.
Array(t) ==
    /\ t \in Tables /\ t.count = t.tags
    /\ t.tags < Len(t.tag) \/ t = Tag!EmptyTag
    /\ \A i \in 1..t.tags : t.tag[i] \in Msgno

\* As marks are kept.
Good(t) == Array(t) /\ Tag!Ordered(t)

\* Message numbers are positive, and there is a highest.
LEMMA MsgnoNat == Msgno \subseteq Nat /\ 0 \notin Msgno /\ \E n \in Nat : Msgno \subseteq 1..n
  <1>1. Msgno \subseteq Nat \ {0} /\ IsFiniteSet(Msgno)
    BY MsgnoAssumption
  <1> QED BY <1>1, FiniteBounded

\* ToReln and the rest look at an array's cells as at those of a function.
LEMMA TableIs ==
    ASSUME NEW t, t \in Tables
    PROVE  /\ t.tag \in Seq(Cells) /\ t.tags \in Nat /\ t.count \in Nat /\ Len(t.tag) \in Nat
           /\ DOMAIN t.tag = 1..Len(t.tag) /\ \A i \in 1..Len(t.tag) : t.tag[i] \in Cells
  <1>1. t.tag \in Seq(Cells) /\ t.tags \in Nat /\ t.count \in Nat
    BY DEF Tables
  <1> QED BY <1>1

\* The live cells of an array are cells, and hold numbers of messages.
LEMMA ArrayIs ==
    ASSUME NEW t, Array(t)
    PROVE  /\ t \in Tables /\ t.tags \in Nat /\ t.count = t.tags /\ Len(t.tag) \in Nat
           /\ t.tags <= Len(t.tag) /\ 1..t.tags \subseteq 1..Len(t.tag)
           /\ t.tags # 0 => t.tags < Len(t.tag)
           /\ \A i \in 1..t.tags : t.tag[i] \in Msgno /\ t.tag[i] \in Nat /\ t.tag[i] # 0
  <1>1. t \in Tables /\ t.count = t.tags /\ t.tags \in Nat /\ Len(t.tag) \in Nat
    BY TableIs DEF Array
  <1>2. t = Tag!EmptyTag => t.tags = 0 /\ Len(t.tag) = 0
    BY DEF Tag!EmptyTag
  <1>3. t.tags <= Len(t.tag) /\ (t.tags # 0 => t.tags < Len(t.tag))
    BY <1>1, <1>2 DEF Array
  <1>4. \A i \in 1..t.tags : t.tag[i] \in Msgno /\ t.tag[i] \in Nat /\ t.tag[i] # 0
    BY MsgnoNat DEF Array
  <1>5. 1..t.tags \subseteq 1..Len(t.tag)
    BY <1>1, <1>3
  <1> QED BY <1>1, <1>3, <1>4, <1>5

\* An array without cells has no marks.
LEMMA EmptyGood == Good(Tag!EmptyTag) /\ Tag!Numbers(Tag!EmptyTag) = {}
  <1>1. Tag!EmptyTag = [tag |-> <<>>, tags |-> 0, count |-> 0]
    BY DEF Tag!EmptyTag
  <1>2. Tag!EmptyTag \in Tables
    BY <1>1 DEF Tables
  <1>3. \A i \in Int : i \notin 1..0
    OBVIOUS
  <1> QED BY <1>1, <1>2, <1>3 DEF Good, Array, Tag!Ordered, Tag!Numbers

\* Resizing keeps what was in the cells there still are.
LEMMA ResizeIs ==
    ASSUME junk \in Junk, NEW t, t \in Tables, NEW n \in Nat
    PROVE  LET r == Tag!Resize(t, n)
           IN  /\ r \in Tables /\ r.tags = n /\ r.count = n /\ n < Len(r.tag)
               /\ r = [tag |-> r.tag, tags |-> n, count |-> n]
               /\ \A i \in 1..Len(r.tag) : r.tag[i] = IF i <= Len(t.tag) THEN t.tag[i] ELSE junk
  <1> DEFINE r == Tag!Resize(t, n)
             size == IF n >= Len(t.tag) \/ Len(t.tag) - n > Granularity THEN n + Granularity
                     ELSE Len(t.tag)
             cells == [i \in 1..size |-> IF i <= Len(t.tag) THEN t.tag[i] ELSE junk]
  <1>1. r = [tag |-> cells, tags |-> n, count |-> n]
    BY DEF Tag!Resize, Tag!Realloc
  <1>2. Len(t.tag) \in Nat /\ \A i \in 1..Len(t.tag) : t.tag[i] \in Cells
    BY TableIs
  <1>3. size \in Nat /\ n < size
    BY <1>2, GranularityAssumption
  <1> HIDE DEF size
  <1>4. \A i \in 1..size : (IF i <= Len(t.tag) THEN t.tag[i] ELSE junk) \in Cells
    BY <1>2, <1>3 DEF Cells
  <1>5. cells \in Seq(Cells) /\ Len(cells) = size
    BY <1>3, <1>4
  <1>6. \A i \in 1..size : cells[i] = IF i <= Len(t.tag) THEN t.tag[i] ELSE junk
    OBVIOUS
  <1> HIDE DEF cells
  <1>7. r \in Tables
    BY <1>1, <1>5 DEF Tables
  <1>8. r.tag = cells /\ r.tags = n /\ r.count = n
    BY <1>1
  <1> QED BY <1>1, <1>3, <1>5, <1>6, <1>7, <1>8

\* Moved cells, when there are enough.
LEMMA MoveIs ==
    ASSUME NEW cells, cells \in Seq(Cells), NEW dst \in Nat \ {0}, NEW src \in Nat \ {0}, NEW n \in Nat,
           src + n <= Len(cells) + 1
    PROVE  LET m == Tag!Move(cells, dst, src, n)
           IN  /\ m \in Seq(Cells) /\ Len(m) = Len(cells)
               /\ \A i \in 1..Len(cells) : m[i] = IF i \in dst..(dst + n - 1) THEN cells[src + i - dst]
                                                  ELSE cells[i]
  <1> DEFINE m == Tag!Move(cells, dst, src, n)
             new(i) == IF i \in dst..(dst + n - 1) THEN cells[src + i - dst] ELSE cells[i]
  <1>1. Len(cells) \in Nat /\ DOMAIN cells = 1..Len(cells) /\ \A i \in 1..Len(cells) : cells[i] \in Cells
    OBVIOUS
  <1>2. m = [i \in 1..Len(cells) |-> new(i)]
    BY <1>1 DEF Tag!Move
  <1>3. ASSUME NEW i \in 1..Len(cells) PROVE new(i) \in Cells
    <2>1. CASE i \in dst..(dst + n - 1)
      <3>1. src + i - dst \in 1..Len(cells)
        <4>1. PICK k \in 0..(n - 1) : i = dst + k
          <5>1. i - dst \in 0..(n - 1) /\ i = dst + (i - dst)
            BY <2>1
          <5> QED BY <5>1
        <4>2. src + i - dst = src + k
          BY <4>1
        <4>3. src + k \in 1..Len(cells)
          BY <1>1, <4>1
        <4> QED BY <4>2, <4>3
      <3> QED BY <1>1, <2>1, <3>1
    <2>2. CASE i \notin dst..(dst + n - 1)
      BY <1>1, <2>2
    <2> QED BY <2>1, <2>2
  <1>4. \A i \in 1..Len(cells) : m[i] = new(i)
    BY <1>2
  <1> HIDE DEF new
  <1>5. m \in Seq(Cells) /\ Len(m) = Len(cells)
    BY <1>1, <1>2, <1>3
  <1> QED BY <1>4, <1>5 DEF new

-----------------------------------------------------------------------------
\* The bisection of ToReln.

Halves       == [left : Nat, right : Int]
Half(l, r)   == [left |-> l, right |-> r]
Mid(s)       == (s.left + s.right) \div 2
NextL(x, n, s) == IF n > x[Mid(s) + 1] THEN Mid(s) + 1 ELSE s.left
NextR(x, n, s) == IF n < x[Mid(s) + 1] THEN Mid(s) - 1 ELSE s.right
Bisects(g, x, n) ==
    g = [s \in Halves |->
            IF n = x[Mid(s) + 1] THEN Mid(s)
            ELSE IF NextL(x, n, s) < NextR(x, n, s) THEN g[Half(NextL(x, n, s), NextR(x, n, s))]
            ELSE NextL(x, n, s)]

\* Twice the middle of a half is its sum, or one less.
LEMMA MidIs ==
    ASSUME NEW s \in Halves
    PROVE  /\ s.left \in Nat /\ s.right \in Int /\ Mid(s) \in Int
           /\ 2 * Mid(s) <= s.left + s.right /\ s.left + s.right < 2 * Mid(s) + 2
  <1>1. s.left \in Nat /\ s.right \in Int
    BY DEF Halves
  <1>2. PICK l \in Nat, r \in Int : l = s.left /\ r = s.right
    BY <1>1
  <1>3. (l + r) \div 2 \in Int /\ 2 * ((l + r) \div 2) <= l + r /\ l + r < 2 * ((l + r) \div 2) + 2
    OBVIOUS
  <1> QED BY <1>1, <1>2, <1>3 DEF Mid

\* What a half leads to is a half again, while there is anything left of it.
LEMMA NextHalf ==
    ASSUME NEW x, NEW n, NEW s \in Halves
    PROVE  /\ NextL(x, n, s) \in Int /\ NextR(x, n, s) \in Int
           /\ NextL(x, n, s) < NextR(x, n, s) => Half(NextL(x, n, s), NextR(x, n, s)) \in Halves
  <1>1. PICK l \in Nat, r \in Int, m \in Int :
            l = s.left /\ r = s.right /\ m = Mid(s) /\ 2 * m <= l + r /\ l + r < 2 * m + 2
    BY MidIs
  <1>2. PICK a : a = NextL(x, n, s)
    OBVIOUS
  <1>3. PICK c : c = NextR(x, n, s)
    OBVIOUS
  <1>4. (a = m + 1 \/ a = l) /\ (c = m - 1 \/ c = r)
    BY <1>1, <1>2, <1>3 DEF NextL, NextR
  <1>5. a \in Int /\ c \in Int
    BY <1>4
  <1>6. a < c => a \in Nat
    BY <1>1, <1>4
  <1>7. a < c => Half(a, c) \in Halves
    BY <1>5, <1>6 DEF Half, Halves
  <1> QED BY <1>2, <1>3, <1>5, <1>7

\* There is a bisection.
LEMMA BisectExists ==
    ASSUME NEW x, NEW n PROVE \E g : Bisects(g, x, n)
  <1> DEFINE next == [s \in Halves |-> IF NextL(x, n, s) < NextR(x, n, s)
                                       THEN Half(NextL(x, n, s), NextR(x, n, s)) ELSE s]
             val  == [s \in Halves |-> IF n = x[Mid(s) + 1] THEN Mid(s) ELSE NextL(x, n, s)]
             done == {s \in Halves : n = x[Mid(s) + 1] \/ ~(NextL(x, n, s) < NextR(x, n, s))}
  <1>1. next \in [Halves -> Halves]
    BY NextHalf
  <1>2. val \in [Halves -> Int]
    <2>1. ASSUME NEW s \in Halves PROVE NextL(x, n, s) \in Int /\ Mid(s) \in Int
      BY MidIs, NextHalf
    <2> QED BY <2>1
  <1>3. PICK g : Loops(g, Halves, done, next, val)
    <2> HIDE DEF next, val, done
    <2> QED BY <1>1, <1>2, LoopExists
  <1>4. g = [s \in Halves |-> IF s \in done THEN val[s] ELSE g[next[s]]]
    BY <1>3, Zenon DEF Loops
  <1>5. \A s \in Halves : (IF s \in done THEN val[s] ELSE g[next[s]])
            = IF n = x[Mid(s) + 1] THEN Mid(s)
              ELSE IF NextL(x, n, s) < NextR(x, n, s) THEN g[Half(NextL(x, n, s), NextR(x, n, s))]
              ELSE NextL(x, n, s)
    OBVIOUS
  <1>6. Bisects(g, x, n)
    <2> HIDE DEF next, val, done
    <2> QED BY <1>4, <1>5, Zenon DEF Bisects
  <1> QED BY <1>6

\* The bisection ToReln chooses is one.
LEMMA BisectIs ==
    ASSUME NEW t, NEW n
    PROVE  \E g : Bisects(g, t.tag, n) /\ Tag!Bisect(t, n) = g[Half(0, t.tags)]
  <1> DEFINE x == t.tag
             g == CHOOSE g : g = [s \in Halves |->
            IF n = x[Mid(s) + 1] THEN Mid(s)
            ELSE IF NextL(x, n, s) < NextR(x, n, s) THEN g[Half(NextL(x, n, s), NextR(x, n, s))]
            ELSE NextL(x, n, s)]
  <1>1. Tag!Bisect(t, n) = g[Half(0, t.tags)]
    BY Zenon DEF Tag!Bisect, Halves, Half, Mid, NextL, NextR
  <1>2. \E h : h = [s \in Halves |->
            IF n = x[Mid(s) + 1] THEN Mid(s)
            ELSE IF NextL(x, n, s) < NextR(x, n, s) THEN h[Half(NextL(x, n, s), NextR(x, n, s))]
            ELSE NextL(x, n, s)]
    BY BisectExists DEF Bisects
  <1>3. g = [s \in Halves |->
            IF n = x[Mid(s) + 1] THEN Mid(s)
            ELSE IF NextL(x, n, s) < NextR(x, n, s) THEN g[Half(NextL(x, n, s), NextR(x, n, s))]
            ELSE NextL(x, n, s)]
    BY <1>2, Zenon
  <1>4. Bisects(g, t.tag, n)
    BY <1>3, Zenon DEF Bisects
  <1> QED BY <1>1, <1>4

\* Where a half leads, as ToReln's loop has it.
LEMMA BisectStep ==
    ASSUME NEW x, NEW n, NEW g, Bisects(g, x, n), NEW s \in Halves
    PROVE  g[s] = IF n = x[Mid(s) + 1] THEN Mid(s)
                  ELSE IF NextL(x, n, s) < NextR(x, n, s)
                       THEN g[Half(NextL(x, n, s), NextR(x, n, s))]
                       ELSE NextL(x, n, s)
  BY Zenon DEF Bisects

\* Rising numbers in the first cells.
Rising(x, N) == /\ N \in Nat /\ \A i \in 1..N : x[i] \in Nat
                /\ \A i, j \in 1..N : i < j => x[i] < x[j]

\* A position with less before it and more behind it.
Spot(x, N, n, c) ==
    c \in 1..N /\ \A k \in 1..N : (k < c => x[k] < n) /\ (c < k => n < x[k])

\* The cell that is sought, counted from 0, is between l and r.
Between(x, N, n, l, r) ==
    /\ 0 <= l /\ l < N /\ l < r /\ r <= N
    /\ \A k \in 1..N : (k <= l => x[k] < n) /\ (k > r + 1 => n < x[k])

\* The middle of a half with two ends is not above both, nor below.
LEMMA MidBetween ==
    ASSUME NEW l \in Nat, NEW r \in Int, NEW m \in Int, 2 * m <= l + r, l + r < 2 * m + 2, l < r
    PROVE  l <= m /\ m < r
  OBVIOUS

\* The bisection of a half ends where the number is or belongs, when that is in it
\* and smaller halves end so.
LEMMA BisectGood ==
    ASSUME NEW x, NEW N, Rising(x, N), NEW n \in Nat, n <= x[N], NEW g, Bisects(g, x, n),
           NEW d \in Nat, \A t \in Halves : Between(x, N, n, t.left, t.right) /\ t.right - t.left < d
                              => Spot(x, N, n, g[t] + 1),
           NEW s \in Halves, Between(x, N, n, s.left, s.right), s.right - s.left <= d
    PROVE  Spot(x, N, n, g[s] + 1)
  <1>0. /\ N \in Nat /\ \A k \in 1..N : x[k] \in Nat
        /\ \A i, j \in 1..N : i < j => x[i] < x[j]
    BY DEF Rising
  <1>1. PICK l \in Nat, r \in Int, m \in Int :
            l = s.left /\ r = s.right /\ m = Mid(s) /\ 2 * m <= l + r /\ l + r < 2 * m + 2
    BY MidIs
  <1>2. /\ l < N /\ l < r /\ r <= N
        /\ \A k \in 1..N : (k <= l => x[k] < n) /\ (k > r + 1 => n < x[k])
    BY <1>1 DEF Between
  <1>3. l <= m /\ m < r /\ m \in Nat /\ m + 1 \in 1..N
    <2>1. l <= m /\ m < r
      BY <1>1, <1>2, MidBetween
    <2> QED BY <1>0, <1>2, <2>1
  <1>4. PICK a \in Nat : a = x[m + 1]
    BY <1>0, <1>3
  <1>5. \A k \in 1..N : (k < m + 1 => x[k] < a) /\ (m + 1 < k => a < x[k])
    BY <1>0, <1>3, <1>4
  <1>p. PICK L : L = NextL(x, n, s)
    OBVIOUS
  <1>q. PICK R : R = NextR(x, n, s)
    OBVIOUS
  <1>6. /\ L = IF n > a THEN m + 1 ELSE l
        /\ R = IF n < a THEN m - 1 ELSE r
    BY <1>1, <1>4, <1>p, <1>q DEF NextL, NextR
  <1>7. g[s] = IF n = a THEN m ELSE IF L < R THEN g[Half(L, R)] ELSE L
    BY <1>1, <1>4, <1>p, <1>q, BisectStep
  <1>10. CASE n = a
    BY <1>3, <1>5, <1>7, <1>10 DEF Spot
  \* The cell is in the upper half.
  <1>11. CASE n > a
    <2>1. L = m + 1 /\ R = r
      BY <1>6, <1>11
    <2>2. m + 1 < N
      <3>1. m + 1 # N
        BY <1>4, <1>11
      <3> QED BY <1>0, <1>3, <3>1
    <2>3. ASSUME NEW k \in 1..N, k <= m + 1 PROVE x[k] < n
      <3>1. k = m + 1 \/ k < m + 1
        BY <1>0, <1>3, <2>3
      <3>2. x[k] \in Nat /\ x[k] <= a
        BY <1>0, <1>4, <1>5, <3>1
      <3> QED BY <1>11, <3>2
    <2>4. CASE L < R
      <3>1. Half(L, R) \in Halves /\ Half(L, R).left = L /\ Half(L, R).right = R
        BY <1>3, <2>1 DEF Half, Halves
      <3>2. Between(x, N, n, L, R)
        BY <1>2, <1>3, <2>1, <2>2, <2>3, <2>4 DEF Between
      <3>3. R - L < d
        <4>1. r - l <= d
          BY <1>1
        <4> QED BY <1>3, <2>1, <4>1
      <3>4. Spot(x, N, n, g[Half(L, R)] + 1)
        BY <3>1, <3>2, <3>3
      <3> QED BY <1>7, <1>11, <2>4, <3>4
    <2>5. CASE ~(L < R)
      <3>1. r = m + 1
        BY <1>3, <2>1, <2>5
      <3>2. g[s] = m + 1
        BY <1>7, <1>11, <2>1, <2>5
      <3>3. m + 1 + 1 \in 1..N
        BY <1>0, <1>3, <2>2
      <3>4. \A k \in 1..N : (k < m + 1 + 1 => x[k] < n) /\ (m + 1 + 1 < k => n < x[k])
        BY <1>2, <1>3, <2>3, <3>1
      <3> QED BY <3>2, <3>3, <3>4 DEF Spot
    <2> QED BY <2>4, <2>5
  \* The cell is in the lower half.
  <1>12. CASE n < a
    <2>1. L = l /\ R = m - 1
      BY <1>6, <1>12
    <2>3. ASSUME NEW k \in 1..N, k > m PROVE n < x[k]
      <3>1. k = m + 1 \/ m + 1 < k
        BY <1>3, <2>3
      <3>2. x[k] \in Nat /\ a <= x[k]
        BY <1>0, <1>4, <1>5, <3>1
      <3> QED BY <1>12, <3>2
    <2>4. CASE L < R
      <3>1. Half(L, R) \in Halves /\ Half(L, R).left = L /\ Half(L, R).right = R
        BY <1>3, <2>1 DEF Half, Halves
      <3>2. Between(x, N, n, L, R)
        <4>1. \A k \in 1..N : k > R + 1 => k > m
          BY <1>3, <2>1
        <4>2. 0 <= L /\ L < N /\ R <= N
          BY <1>0, <1>2, <1>3, <2>1
        <4>3. \A k \in 1..N : k <= L => x[k] < n
          BY <1>2, <2>1
        <4> QED BY <2>3, <2>4, <4>1, <4>2, <4>3 DEF Between
      <3>3. R - L < d
        <4>1. r - l <= d
          BY <1>1
        <4> QED BY <1>3, <2>1, <4>1
      <3>4. Spot(x, N, n, g[Half(L, R)] + 1)
        BY <3>1, <3>2, <3>3
      <3> QED BY <1>4, <1>7, <1>12, <2>4, <3>4
    <2>5. CASE ~(L < R)
      <3>1. m = l \/ m = l + 1
        BY <1>3, <2>1, <2>5
      <3>2. g[s] = l
        BY <1>4, <1>7, <1>12, <2>1, <2>5
      <3>3. l + 1 \in 1..N
        BY <1>0, <1>2
      <3>4. \A k \in 1..N : (k < l + 1 => x[k] < n) /\ (l + 1 < k => n < x[k])
        BY <1>2, <2>3, <3>1
      <3> QED BY <3>2, <3>3, <3>4 DEF Spot
    <2> QED BY <2>4, <2>5
  <1> QED BY <1>4, <1>10, <1>11, <1>12

\* Where the bisection ends there is less before and more behind.
LEMMA BisectSpot ==
    ASSUME NEW t, Rising(t.tag, t.tags), t.tags # 0, NEW n \in Nat, n <= t.tag[t.tags]
    PROVE  Spot(t.tag, t.tags, n, Tag!Bisect(t, n) + 1)
  <1> DEFINE x == t.tag
             N == t.tags
  <1>0. N \in Nat /\ N >= 1
    BY DEF Rising
  <1>1. PICK g : Bisects(g, x, n) /\ Tag!Bisect(t, n) = g[Half(0, N)]
    BY BisectIs
  <1>2. Rising(x, N) /\ n <= x[N]
    OBVIOUS
  <1> HIDE DEF x, N
  <1> DEFINE S == {d \in Nat : \A s \in Halves : Between(x, N, n, s.left, s.right) /\ s.right - s.left < d
                                   => Spot(x, N, n, g[s] + 1)}
  <1>3. 0 \in S
    <2>1. ASSUME NEW s \in Halves, Between(x, N, n, s.left, s.right) PROVE ~(s.right - s.left < 0)
      <3>1. s.left \in Nat /\ s.right \in Int /\ s.left < s.right
        BY <2>1 DEF Halves, Between
      <3> QED BY <3>1
    <2> QED BY <2>1
  <1>4. ASSUME NEW d \in Nat, d \in S PROVE d + 1 \in S
    <2>1. ASSUME NEW s \in Halves, Between(x, N, n, s.left, s.right), s.right - s.left < d + 1
          PROVE  Spot(x, N, n, g[s] + 1)
      <3>1. s.right - s.left <= d
        <4>1. s.left \in Nat /\ s.right \in Int
          BY DEF Halves
        <4> QED BY <2>1, <4>1
      <3>2. \A u \in Halves : Between(x, N, n, u.left, u.right) /\ u.right - u.left < d
                                  => Spot(x, N, n, g[u] + 1)
        BY <1>4
      <3> QED BY <1>1, <1>2, <2>1, <3>1, <3>2, BisectGood
    <2> QED BY <2>1
  <1>5. Nat \subseteq S
    <2> HIDE DEF S
    <2> QED BY <1>3, <1>4, Induction
  <1>6. Half(0, N) \in Halves /\ Half(0, N).left = 0 /\ Half(0, N).right = N
    BY <1>0 DEF Half, Halves
  <1>7. Between(x, N, n, 0, N)
    BY <1>0 DEF Between
  <1>8. N + 1 \in S /\ N - 0 < N + 1
    BY <1>0, <1>5
  <1>9. Spot(x, N, n, g[Half(0, N)] + 1)
    BY <1>6, <1>7, <1>8
  <1> QED BY <1>1, <1>9 DEF x, N

-----------------------------------------------------------------------------
\* Finding, adding and deleting a number.

\* The position ToReln gives, the closest one.
Near(t, n) == Tag!ToReln(t, n, TRUE)

\* ToReln gives the closest position, and Find the number's, or 0.
LEMMA ToRelnIs ==
    ASSUME NEW t, Rising(t.tag, t.tags), t.tags # 0 => t.tag # <<>>, NEW n \in Nat,
           \A i \in 1..t.tags : t.tag[i] # 0
    PROVE  /\ t.tags = 0 => Near(t, n) = 0
           /\ t.tags # 0 /\ n # 0 => Spot(t.tag, t.tags, n, Near(t, n))
           /\ Tag!Find(t, n) \in 0..t.tags
           /\ Tag!Find(t, n) # 0 => t.tag[Tag!Find(t, n)] = n
           /\ \A k \in 1..t.tags : t.tag[k] = n => Tag!Find(t, n) = k
  <1>0. /\ t.tags \in Nat /\ \A k \in 1..t.tags : t.tag[k] \in Nat
        /\ \A i, j \in 1..t.tags : i < j => t.tag[i] < t.tag[j]
    BY DEF Rising
  <1>1. CASE t.tags = 0 \/ n = 0
    <2>1. Near(t, n) = 0 /\ Tag!Find(t, n) = 0
      BY <1>1 DEF Near, Tag!ToReln, Tag!Find, Tag!RELN_INVALID, Tag!TAGN_INVALID
    <2>2. ASSUME NEW k \in 1..t.tags, t.tag[k] = n PROVE FALSE
      BY <1>0, <1>1, <2>2
    <2> QED BY <1>0, <1>1, <2>1, <2>2
  <1>2. CASE t.tags # 0 /\ n # 0 /\ n > t.tag[t.tags]
    <2>1. Near(t, n) = t.tags /\ Tag!Find(t, n) = 0
      BY <1>2 DEF Near, Tag!ToReln, Tag!Find, Tag!RELN_INVALID, Tag!TAGN_INVALID
    <2>2. t.tags \in 1..t.tags /\ t.tag[t.tags] \in Nat
      BY <1>0, <1>2
    <2>3. ASSUME NEW k \in 1..t.tags PROVE t.tag[k] < n
      <3>1. k = t.tags \/ k < t.tags
        BY <1>0
      <3>2. t.tag[k] \in Nat /\ t.tag[k] <= t.tag[t.tags]
        BY <1>0, <2>2, <3>1
      <3> QED BY <1>2, <2>2, <3>2
    <2>4. ASSUME NEW k \in 1..t.tags, t.tags < k PROVE FALSE
      BY <1>0, <2>4
    <2>5. Spot(t.tag, t.tags, n, t.tags)
      BY <2>2, <2>3, <2>4 DEF Spot
    <2>6. \A k \in 1..t.tags : t.tag[k] # n
      BY <1>0, <2>3
    <2> QED BY <1>0, <1>2, <2>1, <2>5, <2>6
  <1>3. CASE t.tags # 0 /\ n # 0 /\ ~(n > t.tag[t.tags])
    <2>1. n <= t.tag[t.tags]
      <3>1. t.tag[t.tags] \in Nat
        BY <1>0, <1>3
      <3> QED BY <1>3, <3>1
    <2>2. PICK c : c = Tag!Bisect(t, n)
      OBVIOUS
    <2>3. Spot(t.tag, t.tags, n, c + 1)
      BY <1>3, <2>1, <2>2, BisectSpot
    <2>4. /\ Near(t, n) = c + 1
          /\ Tag!Find(t, n) = IF t.tag[c + 1] = n THEN c + 1 ELSE 0
      BY <1>3, <2>2 DEF Near, Tag!ToReln, Tag!Find, Tag!RELN_INVALID, Tag!TAGN_INVALID
    <2>5. PICK p : p = c + 1
      OBVIOUS
    <2>6. p \in 1..t.tags /\ \A k \in 1..t.tags : (k < p => t.tag[k] < n) /\ (p < k => n < t.tag[k])
      BY <2>3, <2>5 DEF Spot
    <2>7. ASSUME NEW k \in 1..t.tags, t.tag[k] = n PROVE k = p
      BY <1>0, <2>6, <2>7
    <2> QED BY <1>0, <1>3, <2>3, <2>4, <2>5, <2>6, <2>7
  <1> QED BY <1>1, <1>2, <1>3

\* Marks as they are kept can be searched.
LEMMA GoodIs ==
    ASSUME NEW t, Good(t)
    PROVE  /\ Rising(t.tag, t.tags) /\ (t.tags # 0 => t.tag # <<>>)
           /\ \A i \in 1..t.tags : t.tag[i] # 0 /\ t.tag[i] \in Msgno
           /\ Tag!Numbers(t) \subseteq Msgno
  <1>1. Array(t) /\ \A i, j \in 1..t.tags : i < j => t.tag[i] < t.tag[j]
    BY DEF Good, Tag!Ordered
  <1>2. t.tags # 0 => t.tag # <<>>
    <2>1. t.tags # 0 => t.tags < Len(t.tag) /\ t.tags \in Nat
      BY <1>1, ArrayIs
    <2>2. Len(<<>>) = 0
      OBVIOUS
    <2> QED BY <2>1, <2>2
  <1> QED BY <1>1, <1>2, ArrayIs DEF Rising, Tag!Numbers

\* An array of messages whose live cells rise is kept in order.
LEMMA GoodBy ==
    ASSUME NEW t, t \in Tables, t.count = t.tags, t.tags < Len(t.tag),
           \A i \in 1..t.tags : t.tag[i] \in Msgno,
           \A i, j \in 1..t.tags : i < j => t.tag[i] < t.tag[j]
    PROVE  Good(t)
  BY DEF Good, Array, Tag!Ordered

\* Adding a number to the array.
LEMMA AddIs ==
    ASSUME junk \in Junk, NEW t, Good(t), NEW n \in Msgno
    PROVE  Good(Tag!Add(t, n)) /\ Tag!Numbers(Tag!Add(t, n)) = Tag!Numbers(t) \cup {n}
  <1> DEFINE near == Near(t, n)
             r    == Tag!Resize(t, t.tags + 1)
             at   == IF near # 0 /\ r.tag[near] > n THEN near - 1 ELSE near
             room == Tag!Move(r.tag, at + 2, at + 1, r.tags - at - 1)
             u    == [r EXCEPT !.tag = [room EXCEPT ![at + 1] = n]]
  <1>1. Tag!Add(t, n) = IF near # 0 /\ t.tag[near] = n THEN t ELSE u
    BY Zenon DEF Tag!Add, Near
  <1>2. /\ t \in Tables /\ t.tags \in Nat /\ Len(t.tag) \in Nat /\ t.tags <= Len(t.tag) /\ t.count = t.tags
        /\ Rising(t.tag, t.tags) /\ (t.tags # 0 => t.tag # <<>>)
        /\ \A i \in 1..t.tags : t.tag[i] # 0 /\ t.tag[i] \in Msgno /\ t.tag[i] \in Nat
    BY ArrayIs, GoodIs DEF Good
  <1>3. n \in Nat /\ n # 0
    BY MsgnoNat
  <1> HIDE DEF near
  <1>4. /\ t.tags = 0 => near = 0
        /\ t.tags # 0 => Spot(t.tag, t.tags, n, near)
    BY <1>2, <1>3, ToRelnIs DEF near
  <1>5. CASE near # 0 /\ t.tag[near] = n
    <2>1. near \in 1..t.tags
      BY <1>2, <1>4, <1>5 DEF Spot
    <2>2. n \in Tag!Numbers(t)
      BY <1>5, <2>1 DEF Tag!Numbers
    <2> QED BY <1>1, <1>5, <2>2
  <1>6. CASE ~(near # 0 /\ t.tag[near] = n)
    <2>1. PICK N \in Nat : N = t.tags
      BY <1>2
    <2>2. /\ r \in Tables /\ r.tags = N + 1 /\ r.count = N + 1 /\ N + 1 < Len(r.tag)
          /\ r = [tag |-> r.tag, tags |-> N + 1, count |-> N + 1]
          /\ \A i \in 1..Len(r.tag) : r.tag[i] = IF i <= Len(t.tag) THEN t.tag[i] ELSE junk
      <3>1. N + 1 \in Nat /\ N + 1 = t.tags + 1
        BY <2>1
      <3> QED BY <1>2, <3>1, ResizeIs
    <2>3. PICK L \in Nat : L = Len(r.tag) /\ r.tag \in Seq(Cells) /\ N + 1 < L
      BY <2>2, TableIs
    <2>4. \A i \in 1..N : r.tag[i] = t.tag[i]
      BY <1>2, <2>1, <2>2, <2>3
    <2>5. PICK p \in 1..(N + 1) : /\ p = at + 1
                                  /\ \A k \in 1..N : (k < p => t.tag[k] < n) /\ (k >= p => n < t.tag[k])
      <3>1. CASE N = 0
        <4>1. near = 0
          BY <1>4, <2>1, <3>1
        <4>2. at + 1 = 1
          BY <4>1
        <4> HIDE DEF at
        <4> QED BY <3>1, <4>2
      <3>2. CASE N # 0
        <4>1. PICK c \in 1..N : c = near /\ \A k \in 1..N : (k < c => t.tag[k] < n) /\ (c < k => n < t.tag[k])
          BY <1>4, <2>1, <3>2 DEF Spot
        <4>2. PICK a \in Nat : a = t.tag[c] /\ a # n /\ a = r.tag[c]
          BY <1>2, <1>6, <2>1, <2>4, <4>1
        <4>3. at = IF a > n THEN c - 1 ELSE c
          BY <4>1, <4>2
        <4> HIDE DEF at
        <4>4. CASE a > n
          <5>1. c \in 1..(N + 1) /\ c = at + 1
            BY <4>1, <4>3, <4>4
          <5>2. ASSUME NEW k \in 1..N PROVE (k < c => t.tag[k] < n) /\ (k >= c => n < t.tag[k])
            <6>1. k < c \/ k = c \/ c < k
              OBVIOUS
            <6>2. k = c => n < t.tag[k]
              BY <1>3, <4>2, <4>4
            <6> QED BY <4>1, <6>1, <6>2
          <5> QED BY <5>1, <5>2
        <4>5. CASE ~(a > n)
          <5>1. c + 1 \in 1..(N + 1) /\ c + 1 = at + 1
            BY <4>1, <4>3, <4>5
          <5>2. a < n
            BY <1>3, <4>2, <4>5
          <5>3. ASSUME NEW k \in 1..N PROVE (k < c + 1 => t.tag[k] < n) /\ (k >= c + 1 => n < t.tag[k])
            <6>1. k < c \/ k = c \/ c < k
              OBVIOUS
            <6>2. k = c => t.tag[k] < n
              BY <4>2, <5>2
            <6> QED BY <4>1, <6>1, <6>2
          <5> QED BY <5>1, <5>3
        <4> QED BY <4>4, <4>5
      <3> QED BY <3>1, <3>2
    <2>6. PICK m : /\ m = Tag!Move(r.tag, p + 1, p, N + 1 - p)
                   /\ m \in Seq(Cells) /\ Len(m) = L
                   /\ \A i \in 1..L : m[i] = IF i \in (p + 1)..(p + 1 + (N + 1 - p) - 1)
                                             THEN r.tag[p + i - (p + 1)] ELSE r.tag[i]
      <3>1. p + 1 \in Nat \ {0} /\ p \in Nat \ {0} /\ N + 1 - p \in Nat /\ p + (N + 1 - p) <= L + 1
        BY <2>3
      <3> QED BY <2>3, <3>1, MoveIs
    <2>7. room = m
      <3>1. at \in Int
        BY <2>5, <1>4, <1>2 DEF Spot
      <3> HIDE DEF at, r
      <3>2. at + 2 = p + 1 /\ at + 1 = p /\ r.tags - at - 1 = N + 1 - p
        BY <2>2, <2>5, <3>1
      <3> QED BY <2>6, <3>2, Zenon
    <2>8. PICK v : v = [m EXCEPT ![p] = n] /\ v \in Seq(Cells) /\ Len(v) = L
                   /\ \A i \in 1..L : v[i] = IF i = p THEN n ELSE m[i]
      <3>1. n \in Cells
        BY DEF Cells
      <3>2. p \in 1..L
        BY <2>3
      <3>3. m \in [1..L -> Cells] /\ DOMAIN m = 1..L
        BY <2>6
      <3>4. PICK v : v = [m EXCEPT ![p] = n]
        OBVIOUS
      <3>5. v \in [1..L -> Cells] /\ \A i \in 1..L : v[i] = IF i = p THEN n ELSE m[i]
        BY <3>1, <3>2, <3>3, <3>4
      <3>6. v \in Seq(Cells) /\ Len(v) = L
        BY <3>5
      <3> QED BY <3>4, <3>5, <3>6
    <2>9. u = [tag |-> v, tags |-> N + 1, count |-> N + 1]
      <3> HIDE DEF r, at, room
      <3>1. u = [r EXCEPT !.tag = v]
        BY <2>5, <2>7, <2>8
      <3> QED BY <2>2, <3>1
    <2>10. \A i \in 1..(N + 1) : v[i] = IF i < p THEN t.tag[i] ELSE IF i = p THEN n ELSE t.tag[i - 1]
      <3>1. ASSUME NEW i \in 1..(N + 1) PROVE v[i] = IF i < p THEN t.tag[i] ELSE IF i = p THEN n ELSE t.tag[i - 1]
        <4>1. i \in 1..L
          BY <2>3
        <4>2. CASE i < p
          <5>1. i \in 1..N /\ i \notin (p + 1)..(p + 1 + (N + 1 - p) - 1)
            BY <4>2
          <5> QED BY <2>4, <2>6, <2>8, <4>1, <4>2, <5>1
        <4>3. CASE i = p
          BY <2>8, <4>1, <4>3
        <4>4. CASE i > p
          <5>1. /\ i - 1 \in 1..N /\ i \in (p + 1)..(p + 1 + (N + 1 - p) - 1)
                /\ p + i - (p + 1) = i - 1
            BY <4>4
          <5> QED BY <2>4, <2>6, <2>8, <4>1, <4>4, <5>1
        <4> QED BY <4>2, <4>3, <4>4
      <3> QED BY <3>1
    <2> HIDE DEF u, room, at, r, near
    <2>11. u \in Tables /\ u.tag = v /\ u.tags = N + 1 /\ u.count = N + 1
      BY <2>8, <2>9 DEF Tables
    <2>12. ASSUME NEW i \in 1..(N + 1) PROVE v[i] \in Msgno /\ v[i] \in Nat
      <3>1. CASE i < p
        <4>1. i \in 1..N
          BY <3>1
        <4> QED BY <1>2, <1>3, <2>1, <2>10, <3>1, <4>1
      <3>2. CASE i = p
        BY <1>2, <1>3, <2>10, <3>2
      <3>3. CASE i > p
        <4>1. i - 1 \in 1..N
          BY <3>3
        <4>2. ~(i < p) /\ i # p
          BY <3>3
        <4> QED BY <1>2, <1>3, <2>1, <2>10, <4>1, <4>2
      <3> QED BY <3>1, <3>2, <3>3
    <2>13. \A i, j \in 1..(N + 1) : i < j => v[i] < v[j]
      <3>1. ASSUME NEW i \in 1..(N + 1), NEW j \in 1..(N + 1), i < j PROVE v[i] < v[j]
        <4>0. \A k, l \in 1..N : k < l => t.tag[k] < t.tag[l]
          BY <1>2, <2>1 DEF Rising
        <4>1. CASE j < p
          BY <2>10, <3>1, <4>0, <4>1
        <4>2. CASE j = p
          <5>1. v[j] = n /\ v[i] = t.tag[i] /\ i \in 1..N
            BY <2>10, <3>1, <4>2
          <5> QED BY <2>5, <3>1, <4>2, <5>1
        <4>3. CASE j > p /\ i < p
          <5>1. j - 1 \in 1..N /\ i \in 1..N /\ v[j] = t.tag[j - 1] /\ v[i] = t.tag[i]
            BY <2>10, <4>3
          <5>2. t.tag[i] < n /\ n < t.tag[j - 1] /\ t.tag[i] \in Nat /\ t.tag[j - 1] \in Nat
            BY <1>2, <2>1, <2>5, <4>3, <5>1
          <5> QED BY <1>3, <5>1, <5>2
        <4>4. CASE j > p /\ i = p
          <5>1. j - 1 \in 1..N /\ v[j] = t.tag[j - 1] /\ v[i] = n
            BY <2>10, <4>4
          <5> QED BY <2>5, <4>4, <5>1
        <4>5. CASE j > p /\ i > p
          <5>1. j - 1 \in 1..N /\ i - 1 \in 1..N /\ v[j] = t.tag[j - 1] /\ v[i] = t.tag[i - 1] /\ i - 1 < j - 1
            BY <2>10, <3>1, <4>5
          <5> QED BY <4>0, <5>1
        <4> QED BY <4>1, <4>2, <4>3, <4>4, <4>5
      <3> QED BY <3>1
    <2>14. Good(u)
      BY <2>3, <2>8, <2>11, <2>12, <2>13, GoodBy
    <2>15. Tag!Numbers(u) = Tag!Numbers(t) \cup {n}
      <3>1. Tag!Numbers(u) = {v[i] : i \in 1..(N + 1)}
        BY <2>11 DEF Tag!Numbers
      <3>2. Tag!Numbers(t) = {t.tag[i] : i \in 1..N}
        BY <2>1 DEF Tag!Numbers
      <3>3. ASSUME NEW i \in 1..(N + 1) PROVE v[i] \in {t.tag[j] : j \in 1..N} \cup {n}
        <4>1. i = p \/ (i < p /\ i \in 1..N) \/ (i > p /\ i - 1 \in 1..N)
          OBVIOUS
        <4> QED BY <2>10, <4>1
      <3>4. ASSUME NEW j \in 1..N PROVE t.tag[j] \in {v[i] : i \in 1..(N + 1)}
        <4>1. CASE j < p
          <5>1. j \in 1..(N + 1) /\ v[j] = t.tag[j]
            BY <2>10, <4>1
          <5> QED BY <5>1
        <4>2. CASE j >= p
          <5>1. j + 1 \in 1..(N + 1) /\ ~(j + 1 < p) /\ j + 1 # p /\ j + 1 - 1 = j
            BY <4>2
          <5>2. v[j + 1] = t.tag[j]
            BY <2>10, <5>1
          <5> QED BY <5>1, <5>2
        <4> QED BY <4>1, <4>2
      <3>5. v[p] = n
        BY <2>10
      <3> QED BY <3>1, <3>2, <3>3, <3>4, <3>5
    <2> QED BY <1>1, <1>6, <2>14, <2>15
  <1> QED BY <1>5, <1>6

\* Deleting a number from the array.
LEMMA DelIs ==
    ASSUME NEW t, Good(t), NEW p \in 1..t.tags
    PROVE  Good(Tag!DelReln(t, p)) /\ Tag!Numbers(Tag!DelReln(t, p)) = Tag!Numbers(t) \ {t.tag[p]}
  <1>1. /\ t \in Tables /\ t.tags \in Nat /\ Len(t.tag) \in Nat /\ t.tags <= Len(t.tag) /\ t.count = t.tags
        /\ Rising(t.tag, t.tags)
        /\ \A i \in 1..t.tags : t.tag[i] \in Msgno /\ t.tag[i] \in Nat
    BY ArrayIs, GoodIs DEF Good
  <1>2. PICK N \in Nat, L \in Nat : N = t.tags /\ L = Len(t.tag) /\ N <= L /\ p \in 1..N /\ N # 0
    BY <1>1
  <1> DEFINE v == Tag!Move(t.tag, p, p + 1, N - p)
             u == Tag!DelReln(t, p)
  <1>3. /\ v \in Seq(Cells) /\ Len(v) = L
        /\ \A i \in 1..L : v[i] = IF i \in p..(p + (N - p) - 1)
                                  THEN t.tag[p + 1 + i - p] ELSE t.tag[i]
    <2>1. p + 1 \in Nat \ {0} /\ p \in Nat \ {0} /\ N - p \in Nat /\ p + 1 + (N - p) <= L + 1
      BY <1>2
    <2>2. t.tag \in Seq(Cells)
      BY <1>1, TableIs
    <2>3. /\ v \in Seq(Cells) /\ Len(v) = Len(t.tag)
          /\ \A i \in 1..Len(t.tag) : v[i] = IF i \in p..(p + (N - p) - 1)
                                  THEN t.tag[p + 1 + i - p] ELSE t.tag[i]
      <3>1. p + 1 + (N - p) <= Len(t.tag) + 1
        BY <1>2, <2>1
      <3>2. PICK q \in Nat \ {0}, e \in Nat : q = p + 1 /\ e = N - p
        BY <2>1
      <3>3. PICK w \in Seq(Cells) : w = t.tag
        BY <2>2
      <3>4. q + e <= Len(w) + 1 /\ p \in Nat \ {0}
        BY <2>1, <3>1, <3>2, <3>3
      <3>5. /\ Tag!Move(w, p, q, e) \in Seq(Cells) /\ Len(Tag!Move(w, p, q, e)) = Len(w)
            /\ \A i \in 1..Len(w) : Tag!Move(w, p, q, e)[i] = IF i \in p..(p + e - 1)
                                  THEN w[q + i - p] ELSE w[i]
        BY <3>4, MoveIs
      <3> QED BY <3>2, <3>3, <3>5, Zenon
    <2> HIDE DEF v
    <2> QED BY <1>2, <2>3
  <1>4. u = [tag |-> v, tags |-> N - 1, count |-> N - 1]
    <2>1. p # 0
      BY <1>2
    <2> QED BY <1>1, <1>2, <2>1 DEF Tag!DelReln, Tag!RELN_INVALID
  <1> HIDE DEF u, v
  <1>5. \A i \in 1..(N - 1) : v[i] = IF i < p THEN t.tag[i] ELSE t.tag[i + 1]
    <2>1. ASSUME NEW i \in 1..(N - 1) PROVE v[i] = IF i < p THEN t.tag[i] ELSE t.tag[i + 1]
      <3>1. i \in 1..L
        BY <1>2
      <3>2. CASE i < p
        <4>1. i \notin p..(p + (N - p) - 1)
          BY <3>2
        <4> QED BY <1>3, <3>1, <3>2, <4>1
      <3>3. CASE i >= p
        <4>1. i \in p..(p + (N - p) - 1) /\ p + 1 + i - p = i + 1
          BY <1>2, <3>3
        <4> QED BY <1>3, <3>1, <3>3, <4>1
      <3> QED BY <1>2, <3>2, <3>3
    <2> QED BY <2>1
  <1>6. u \in Tables /\ u.tag = v /\ u.tags = N - 1 /\ u.count = N - 1
    BY <1>2, <1>3, <1>4 DEF Tables
  <1>7. \A k, l \in 1..N : k < l => t.tag[k] < t.tag[l]
    BY <1>1, <1>2 DEF Rising
  <1>8. \A i \in 1..(N - 1) : v[i] \in Msgno
    <2>1. ASSUME NEW i \in 1..(N - 1) PROVE i \in 1..N /\ i + 1 \in 1..N
      BY <1>2
    <2>2. \A i \in 1..N : t.tag[i] \in Msgno
      BY <1>1, <1>2
    <2>3. ASSUME NEW i \in 1..(N - 1) PROVE v[i] \in Msgno
      <3>1. v[i] = t.tag[i] \/ v[i] = t.tag[i + 1]
        BY <1>5
      <3> QED BY <2>1, <2>2, <3>1
    <2> QED BY <2>3
  <1>9. \A i, j \in 1..(N - 1) : i < j => v[i] < v[j]
    <2>1. ASSUME NEW i \in 1..(N - 1), NEW j \in 1..(N - 1), i < j PROVE v[i] < v[j]
      <3>1. CASE j < p
        <4>1. v[i] = t.tag[i] /\ v[j] = t.tag[j] /\ i \in 1..N /\ j \in 1..N
          BY <1>2, <1>5, <2>1, <3>1
        <4> QED BY <1>7, <2>1, <4>1
      <3>2. CASE j >= p /\ i < p
        <4>1. v[i] = t.tag[i] /\ v[j] = t.tag[j + 1] /\ i \in 1..N /\ j + 1 \in 1..N /\ i < j + 1
          BY <1>2, <1>5, <2>1, <3>2
        <4> QED BY <1>7, <4>1
      <3>3. CASE j >= p /\ i >= p
        <4>1. v[i] = t.tag[i + 1] /\ v[j] = t.tag[j + 1] /\ i + 1 \in 1..N /\ j + 1 \in 1..N /\ i + 1 < j + 1
          BY <1>2, <1>5, <2>1, <3>3
        <4> QED BY <1>7, <4>1
      <3> QED BY <1>2, <3>1, <3>2, <3>3
    <2> QED BY <2>1
  <1>10. Good(u)
    <2>1. u.tags < Len(u.tag) /\ u.count = u.tags
      BY <1>2, <1>3, <1>6
    <2>2. \A i \in 1..u.tags : u.tag[i] \in Msgno
      BY <1>6, <1>8
    <2>3. \A i, j \in 1..u.tags : i < j => u.tag[i] < u.tag[j]
      BY <1>6, <1>9
    <2> QED BY <1>6, <2>1, <2>2, <2>3, GoodBy
  <1>11. Tag!Numbers(u) = {v[i] : i \in 1..(N - 1)} /\ Tag!Numbers(t) = {t.tag[i] : i \in 1..N}
    BY <1>2, <1>6 DEF Tag!Numbers
  <1>12. ASSUME NEW i \in 1..(N - 1) PROVE v[i] \in {t.tag[j] : j \in 1..N} \ {t.tag[p]}
    <2>1. CASE i < p
      <3>1. i \in 1..N /\ t.tag[i] < t.tag[p] /\ t.tag[i] \in Nat /\ v[i] = t.tag[i]
        BY <1>1, <1>2, <1>5, <1>7, <2>1
      <3> QED BY <1>1, <1>2, <3>1
    <2>2. CASE i >= p
      <3>1. i + 1 \in 1..N /\ p < i + 1 /\ v[i] = t.tag[i + 1]
        BY <1>2, <1>5, <2>2
      <3>2. t.tag[p] < t.tag[i + 1] /\ t.tag[p] \in Nat
        BY <1>1, <1>2, <1>7, <3>1
      <3> QED BY <3>1, <3>2
    <2> QED BY <1>2, <2>1, <2>2
  <1>13. ASSUME NEW j \in 1..N, t.tag[j] # t.tag[p] PROVE t.tag[j] \in {v[i] : i \in 1..(N - 1)}
    <2>1. CASE j < p
      <3>1. j \in 1..(N - 1) /\ v[j] = t.tag[j]
        BY <1>2, <1>5, <2>1
      <3> QED BY <3>1
    <2>2. CASE j > p
      <3>1. j - 1 \in 1..(N - 1) /\ ~(j - 1 < p) /\ j - 1 + 1 = j
        BY <1>2, <2>2
      <3>2. v[j - 1] = t.tag[j]
        BY <1>5, <3>1
      <3> QED BY <3>1, <3>2
    <2> QED BY <1>2, <1>13, <2>1, <2>2
  <1>14. Tag!Numbers(u) = Tag!Numbers(t) \ {t.tag[p]}
    BY <1>11, <1>12, <1>13
  <1> QED BY <1>10, <1>14 DEF u

-----------------------------------------------------------------------------
\* Sorting, removing repetitions, and merging what was appended.

\* The order of GTag is that of Listing.
LEMMA SameOrder == \A S : Tag!InOrder(S) = InOrder(S)
  BY DEF Tag!InOrder, Tag!Chosen, Tag!Nth, Tag!Cardinality, InOrder, Chosen, Nth, Cardinality

\* Cells in order, perhaps with repetitions.
Sorted(t) ==
    /\ t \in Tables /\ t.count = t.tags /\ t.tags < Len(t.tag)
    /\ \A i \in 1..t.tags : t.tag[i] \in Msgno
    /\ \A i, j \in 1..t.tags : i < j => t.tag[i] <= t.tag[j]

\* Sorting keeps the numbers and puts them in order.
LEMMA SortIs ==
    ASSUME NEW t, t \in Tables, t.count = t.tags, t.tags < Len(t.tag),
           \A i \in 1..t.tags : t.tag[i] \in Msgno
    PROVE  Sorted(Tag!Sort(t)) /\ Tag!Numbers(Tag!Sort(t)) = Tag!Numbers(t)
  <1> DEFINE before(j, i) == t.tag[j] < t.tag[i] \/ (t.tag[j] = t.tag[i] /\ j < i)
             F(i) == {j \in 1..t.tags : before(j, i)}
             rank(i) == Cardinality(F(i)) + 1
             chosen(k) == CHOOSE i \in 1..t.tags : rank(i) = k
             new(k) == IF k <= t.tags THEN t.tag[chosen(k)] ELSE t.tag[k]
             u == Tag!Sort(t)
  <1>1. u = [t EXCEPT !.tag = [k \in DOMAIN t.tag |-> new(k)]]
    BY DEF Tag!Sort, Tag!Cardinality, Cardinality
  <1>2. PICK N \in Nat : N = t.tags
    BY TableIs
  <1>3. PICK L \in Nat : /\ L = Len(t.tag) /\ DOMAIN t.tag = 1..L /\ N < L
                         /\ \A i \in 1..L : t.tag[i] \in Cells
    BY <1>2, TableIs
  <1>4. \A i \in 1..N : t.tag[i] \in Nat /\ t.tag[i] \in Msgno
    BY <1>2, MsgnoNat
  <1>5. \A i, j \in 1..N : ~before(i, i) /\ (i = j \/ before(i, j) \/ before(j, i))
    BY <1>4
  <1>6. ASSUME NEW i \in 1..N, NEW j \in 1..N, NEW k \in 1..N, before(i, j), before(j, k)
        PROVE  before(i, k)
    <2>1. t.tag[i] \in Nat /\ t.tag[j] \in Nat /\ t.tag[k] \in Nat
      BY <1>4
    <2> QED BY <1>6, <2>1
  <1> HIDE DEF before
  <1>7. ASSUME NEW i \in 1..N
        PROVE  IsFiniteSet(F(i)) /\ rank(i) \in 1..N
    <2>1. F(i) \in SUBSET ((1..N) \ {i})
      BY <1>2, <1>5
    <2>2. IsFiniteSet(1..N) /\ Cardinality(1..N) = N
      BY FS_Interval
    <2>3. IsFiniteSet((1..N) \ {i}) /\ Cardinality((1..N) \ {i}) = N - 1
      BY <2>2, FS_RemoveElement
    <2> HIDE DEF F
    <2>4. IsFiniteSet(F(i)) /\ Cardinality(F(i)) <= N - 1
      BY <2>1, <2>3, FS_Subset
    <2>5. Cardinality(F(i)) \in Nat
      BY <2>4, FS_CardinalityType
    <2> QED BY <2>4, <2>5
  <1>8. ASSUME NEW i \in 1..N, NEW j \in 1..N, before(i, j) PROVE rank(i) < rank(j)
    <2>1. F(i) \in SUBSET F(j)
      BY <1>2, <1>6, <1>8
    <2>2. i \in F(j) /\ i \notin F(i)
      BY <1>2, <1>5, <1>8
    <2>3. IsFiniteSet(F(j)) /\ rank(i) \in 1..N /\ rank(j) \in 1..N /\ IsFiniteSet(F(i))
      BY <1>7
    <2> HIDE DEF F
    <2>4. Cardinality(F(i)) <= Cardinality(F(j)) /\ Cardinality(F(i)) # Cardinality(F(j))
      BY <2>1, <2>2, <2>3, FS_Subset
    <2>5. Cardinality(F(i)) \in Nat /\ Cardinality(F(j)) \in Nat
      BY <2>3, FS_CardinalityType
    <2> QED BY <2>4, <2>5
  <1> HIDE DEF rank
  <1>9. \A i, j \in 1..N : rank(i) = rank(j) => i = j
    <2>1. ASSUME NEW i \in 1..N, NEW j \in 1..N, rank(i) = rank(j) PROVE i = j
      <3>0. rank(i) \in 1..N /\ rank(j) \in 1..N
        BY <1>7
      <3>1. rank(i) \in Nat /\ rank(j) \in Nat
        BY <3>0
      <3>2. ~before(i, j) /\ ~before(j, i)
        BY <1>8, <2>1, <3>1
      <3> QED BY <1>5, <3>2
    <2> QED BY <2>1
  <1>10. \A k \in 1..N : \E i \in 1..N : rank(i) = k
    <2> DEFINE r == [i \in 1..N |-> rank(i)]
    <2>1. r \in [1..N -> 1..N] /\ \A i \in 1..N : r[i] = rank(i)
      BY <1>7
    <2> HIDE DEF r
    <2>2. r \in Injection(1..N, 1..N)
      BY <1>9, <2>1 DEF Injection, IsInjective
    <2>3. IsFiniteSet(1..N) /\ Cardinality(1..N) = N
      BY FS_Interval
    <2>4. r \in Surjection(1..N, 1..N)
      BY <2>2, <2>3, FS_Injection
    <2>5. \A k \in 1..N : \E i \in 1..N : r[i] = k
      BY <2>4 DEF Surjection
    <2> QED BY <2>1, <2>5
  <1>11. \A k \in 1..N : chosen(k) \in 1..N /\ rank(chosen(k)) = k
    BY <1>2, <1>10
  <1>12. \A i \in 1..N : rank(i) \in 1..N /\ chosen(rank(i)) = i
    BY <1>7, <1>9, <1>11
  <1> HIDE DEF chosen
  <1>13. \A k \in 1..L : new(k) \in Cells
    BY <1>2, <1>3, <1>11
  <1>14. PICK v : v = [k \in 1..L |-> new(k)]
    OBVIOUS
  <1>15. v \in Seq(Cells) /\ Len(v) = L /\ \A k \in 1..N : v[k] = t.tag[chosen(k)]
    <2>1. v \in [1..L -> Cells]
      BY <1>13, <1>14
    <2>2. \A k \in 1..N : k \in 1..L /\ new(k) = t.tag[chosen(k)]
      BY <1>2, <1>3
    <2>3. \A k \in 1..L : v[k] = new(k)
      BY <1>14
    <2> HIDE DEF new
    <2>4. \A k \in 1..N : v[k] = t.tag[chosen(k)]
      BY <2>2, <2>3
    <2> QED BY <2>1, <2>4
  <1>16. u = [tag |-> v, tags |-> N, count |-> N]
    <2>1. u = [t EXCEPT !.tag = v]
      BY <1>1, <1>3, <1>14
    <2>2. t = [tag |-> t.tag, tags |-> t.tags, count |-> t.count]
      BY DEF Tables
    <2> HIDE DEF u
    <2> QED BY <1>2, <2>1, <2>2
  <1> HIDE DEF u
  <1>17. u \in Tables /\ u.tag = v /\ u.tags = N /\ u.count = N
    BY <1>15, <1>16 DEF Tables
  <1>18. ASSUME NEW k \in 1..N, NEW l \in 1..N, k < l PROVE v[k] <= v[l]
    <2>1. PICK i \in 1..N, j \in 1..N : /\ i = chosen(k) /\ j = chosen(l) /\ rank(i) = k /\ rank(j) = l
                                        /\ v[k] = t.tag[i] /\ v[l] = t.tag[j]
      BY <1>11, <1>15
    <2>2. i # j
      BY <1>18, <2>1
    <2>3. ~before(j, i)
      <3>1. before(j, i) => l < k
        BY <1>8, <2>1
      <3> QED BY <1>18, <3>1
    <2>4. before(i, j)
      BY <1>5, <2>2, <2>3
    <2>5. t.tag[i] \in Nat /\ t.tag[j] \in Nat
      BY <1>4
    <2> QED BY <2>1, <2>4, <2>5 DEF before
  <1>19. \A i \in 1..N : v[i] \in Msgno
    BY <1>4, <1>11, <1>15
  <1>20. Sorted(u)
    <2>1. u.count = u.tags /\ u.tags < Len(u.tag)
      BY <1>3, <1>15, <1>17
    <2>2. \A i \in 1..u.tags : u.tag[i] \in Msgno
      BY <1>17, <1>19
    <2>3. \A i, j \in 1..u.tags : i < j => u.tag[i] <= u.tag[j]
      BY <1>17, <1>18
    <2> QED BY <1>17, <2>1, <2>2, <2>3 DEF Sorted
  <1>21. Tag!Numbers(u) = Tag!Numbers(t)
    <2>1. Tag!Numbers(u) = {v[k] : k \in 1..N} /\ Tag!Numbers(t) = {t.tag[i] : i \in 1..N}
      BY <1>2, <1>17 DEF Tag!Numbers
    <2>2. \A k \in 1..N : v[k] \in {t.tag[i] : i \in 1..N}
      BY <1>11, <1>15
    <2>3. ASSUME NEW i \in 1..N PROVE t.tag[i] \in {v[k] : k \in 1..N}
      <3>1. rank(i) \in 1..N /\ v[rank(i)] = t.tag[i]
        BY <1>12, <1>15
      <3> QED BY <3>1
    <2> QED BY <2>1, <2>2, <2>3
  <1> QED BY <1>20, <1>21 DEF u

\* Dropping repetitions.
LEMMA ElimIs ==
    ASSUME junk \in Junk, NEW t, Sorted(t)
    PROVE  Good(Tag!ElimDups(t)) /\ Tag!Numbers(Tag!ElimDups(t)) = Tag!Numbers(t)
  <1> DEFINE K == {i \in 1..t.tags : i = 1 \/ t.tag[i] # t.tag[i - 1]}
             kept == Tag!InOrder(K)
             cell(k) == CASE k <= Len(kept) -> t.tag[kept[k]]
                          [] k \in (Len(kept) + 1)..t.tags -> t.tag[t.tags]
                          [] OTHER -> t.tag[k]
             packed == [k \in DOMAIN t.tag |-> cell(k)]
             p == [t EXCEPT !.tag = packed]
  <1>1. Tag!ElimDups(t) = IF Len(kept) = t.tags THEN t ELSE Tag!Resize(p, Len(kept))
    BY DEF Tag!ElimDups
  <1>2. /\ t \in Tables /\ t.count = t.tags /\ t.tags < Len(t.tag)
        /\ \A i \in 1..t.tags : t.tag[i] \in Msgno
        /\ \A i, j \in 1..t.tags : i < j => t.tag[i] <= t.tag[j]
    BY DEF Sorted
  <1>3. PICK N \in Nat, L \in Nat : /\ N = t.tags /\ L = Len(t.tag) /\ DOMAIN t.tag = 1..L /\ N < L
                                    /\ \A i \in 1..L : t.tag[i] \in Cells
    BY <1>2, TableIs
  <1>4. \A i \in 1..N : t.tag[i] \in Nat
    BY <1>2, <1>3, MsgnoNat
  <1>5. /\ K \subseteq 1..N
        /\ \A i \in 1..N : i \in K <=> i = 1 \/ t.tag[i] # t.tag[i - 1]
    BY <1>3
  <1> HIDE DEF K
  <1>6. Rises(kept, K) /\ Len(kept) = Cardinality(K)
    BY <1>5, InOrderRises, SameOrder
  <1>7. PICK c \in Nat : /\ c = Len(kept) /\ DOMAIN kept = 1..c /\ c = Cardinality(K)
                         /\ K = {kept[i] : i \in 1..c} /\ \A i \in 1..c : kept[i] \in K
                         /\ \A i, j \in 1..c : i < j => kept[i] < kept[j]
    <2>1. kept \in Seq(Nat) /\ Range(kept) = K /\ \A i, j \in 1..Len(kept) : i < j => kept[i] < kept[j]
      BY <1>6 DEF Rises
    <2> HIDE DEF kept
    <2>2. Len(kept) \in Nat /\ DOMAIN kept = 1..Len(kept)
      BY <2>1
    <2>3. K = {kept[i] : i \in 1..Len(kept)}
      BY <2>1, <2>2 DEF Range
    <2> QED BY <1>6, <2>1, <2>2, <2>3
  \* A kept cell holds more than any before it.
  <1>8. ASSUME NEW b \in K, NEW a \in 1..N, a < b PROVE t.tag[a] < t.tag[b]
    <2>1. b \in 1..N /\ b # 1 /\ b - 1 \in 1..N
      BY <1>5, <1>8
    <2>2. t.tag[b] # t.tag[b - 1]
      BY <1>5, <2>1
    <2>3. t.tag[b - 1] <= t.tag[b]
      BY <1>2, <1>3, <2>1
    <2>4. a = b - 1 \/ t.tag[a] <= t.tag[b - 1]
      BY <1>2, <1>3, <1>8, <2>1
    <2>5. t.tag[a] \in Nat /\ t.tag[b] \in Nat /\ t.tag[b - 1] \in Nat
      BY <1>4, <2>1
    <2> QED BY <2>2, <2>3, <2>4, <2>5
  <1>9. CASE c = N
    <2>1. K = 1..N
      <3>1. IsFiniteSet(1..N) /\ Cardinality(1..N) = N
        BY FS_Interval
      <3> QED BY <1>5, <1>7, <1>9, <3>1, FS_Subset
    <2>2. \A i, j \in 1..t.tags : i < j => t.tag[i] < t.tag[j]
      BY <1>3, <1>8, <2>1
    <2>3. Good(t)
      BY <1>2, <2>2, GoodBy
    <2> QED BY <1>1, <1>3, <1>7, <1>9, <2>3
  <1>10. CASE c # N
    <2>1. c <= N
      <3>1. IsFiniteSet(1..N) /\ Cardinality(1..N) = N
        BY FS_Interval
      <3>2. Cardinality(K) <= Cardinality(1..N)
        BY <1>5, <3>1, FS_Subset
      <3> QED BY <1>7, <3>1, <3>2
    <2> HIDE DEF kept
    <2>2. \A k \in 1..L : cell(k) \in Cells
      <3>1. ASSUME NEW k \in 1..L PROVE cell(k) \in Cells
        <4>1. CASE k <= c
          <5>0. k \in 1..c
            BY <4>1
          <5>1. kept[k] \in 1..N
            BY <1>5, <1>7, <5>0
          <5>2. kept[k] \in 1..L
            BY <1>3, <5>1
          <5>3. cell(k) = t.tag[kept[k]]
            BY <1>7, <4>1
          <5> QED BY <1>3, <5>2, <5>3
        <4>2. CASE k > c /\ k <= N
          <5>1. N \in 1..L /\ k \in (Len(kept) + 1)..t.tags /\ ~(k <= Len(kept))
            BY <1>3, <1>7, <4>2
          <5>2. cell(k) = t.tag[t.tags]
            BY <5>1
          <5> QED BY <1>3, <5>1, <5>2
        <4>3. CASE k > N
          <5>1. k \notin (Len(kept) + 1)..t.tags /\ ~(k <= Len(kept))
            BY <1>3, <1>7, <2>1, <4>3
          <5>2. cell(k) = t.tag[k]
            BY <5>1
          <5> QED BY <1>3, <5>2
        <4> QED BY <1>3, <4>1, <4>2, <4>3
      <3> QED BY <3>1
    <2>3. PICK w : w = packed /\ w \in Seq(Cells) /\ Len(w) = L /\ \A k \in 1..c : w[k] = t.tag[kept[k]]
      <3>1. packed = [k \in 1..L |-> cell(k)]
        BY <1>3
      <3>2. \A k \in 1..c : k \in 1..L /\ cell(k) = t.tag[kept[k]]
        BY <1>3, <1>7, <2>1
      <3> HIDE DEF cell
      <3>3. packed \in [1..L -> Cells]
        BY <2>2, <3>1
      <3>4. \A k \in 1..L : packed[k] = cell(k)
        BY <3>1
      <3> HIDE DEF packed
      <3>5. packed \in Seq(Cells) /\ Len(packed) = L
        BY <3>3
      <3> QED BY <3>2, <3>4, <3>5
    <2>4. p \in Tables /\ p.tag = w
      <3>1. t = [tag |-> t.tag, tags |-> t.tags, count |-> t.count] /\ t.tags \in Nat /\ t.count \in Nat
        BY <1>2 DEF Tables
      <3>2. p = [t EXCEPT !.tag = w]
        BY <2>3
      <3> HIDE DEF p
      <3>3. p = [tag |-> w, tags |-> t.tags, count |-> t.count]
        BY <3>1, <3>2
      <3> QED BY <2>3, <3>1, <3>3 DEF Tables
    <2> HIDE DEF p
    <2> DEFINE u == Tag!Resize(p, c)
    <2>5. /\ u \in Tables /\ u.tags = c /\ u.count = c /\ c < Len(u.tag)
          /\ \A i \in 1..Len(u.tag) : u.tag[i] = IF i <= Len(p.tag) THEN p.tag[i] ELSE junk
      BY <2>4, ResizeIs
    <2> HIDE DEF u
    <2>6. PICK M \in Nat : M = Len(u.tag)
      BY <2>5, TableIs
    <2>7. \A i \in 1..c : u.tag[i] = t.tag[kept[i]] /\ kept[i] \in K /\ kept[i] \in 1..N
      <3>1. ASSUME NEW i \in 1..c PROVE u.tag[i] = t.tag[kept[i]]
        <4>1. i \in 1..M /\ i <= L
          BY <1>3, <2>1, <2>5, <2>6
        <4> QED BY <2>3, <2>4, <2>5, <2>6, <4>1
      <3> QED BY <1>5, <1>7, <3>1
    <2>8. \A i \in 1..u.tags : u.tag[i] \in Msgno
      BY <1>2, <1>3, <2>5, <2>7
    <2>9. \A i, j \in 1..u.tags : i < j => u.tag[i] < u.tag[j]
      <3>1. ASSUME NEW i \in 1..c, NEW j \in 1..c, i < j PROVE u.tag[i] < u.tag[j]
        <4>1. kept[i] < kept[j]
          BY <1>7, <3>1
        <4>2. t.tag[kept[i]] < t.tag[kept[j]]
          BY <1>8, <2>7, <4>1
        <4> QED BY <2>7, <4>2
      <3> QED BY <2>5, <3>1
    <2>10. Good(u)
      BY <2>5, <2>8, <2>9, GoodBy
    <2>11. Tag!Numbers(u) = Tag!Numbers(t)
      <3>1. Tag!Numbers(u) = {u.tag[i] : i \in 1..c} /\ Tag!Numbers(t) = {t.tag[i] : i \in 1..N}
        BY <1>3, <2>5 DEF Tag!Numbers
      <3>2. \A i \in 1..c : u.tag[i] \in {t.tag[j] : j \in 1..N}
        BY <2>7
      <3>3. ASSUME NEW i \in 1..N PROVE t.tag[i] \in {u.tag[j] : j \in 1..c}
        <4>1. PICK q \in {j \in 1..N : t.tag[j] = t.tag[i]} : \A j \in {k \in 1..N : t.tag[k] = t.tag[i]} : q <= j
          <5>1. {j \in 1..N : t.tag[j] = t.tag[i]} \subseteq Nat /\ {j \in 1..N : t.tag[j] = t.tag[i]} # {}
            OBVIOUS
          <5> QED BY <5>1, LeastNumber
        <4>2. q \in K
          <5>1. q = 1 \/ (q - 1 \in 1..N /\ ~(q <= q - 1))
            OBVIOUS
          <5>2. q - 1 \in 1..N /\ t.tag[q - 1] = t.tag[i] => q <= q - 1
            BY <4>1
          <5> QED BY <1>5, <4>1, <5>1, <5>2
        <4>3. PICK k \in 1..c : kept[k] = q
          BY <1>7, <4>2
        <4>4. u.tag[k] = t.tag[i]
          BY <2>7, <4>1, <4>3
        <4> QED BY <4>4
      <3> QED BY <3>1, <3>2, <3>3
    <2> QED BY <1>1, <1>3, <1>7, <1>10, <2>10, <2>11 DEF u, p
  <1> QED BY <1>9, <1>10

\* Writing numbers of messages behind the marks.
LEMMA ExtendedIs ==
    ASSUME junk \in Junk, Good(mark), NEW s \in Seq(Msgno)
    PROVE  LET e == Extended(s)
           IN  /\ e \in Tables /\ e.count = e.tags /\ e.tags < Len(e.tag)
               /\ \A i \in 1..e.tags : e.tag[i] \in Msgno
               /\ Tag!Numbers(e) = Tag!Numbers(mark) \cup Range(s)
  <1> DEFINE r == Tag!Resize(mark, mark.count + Len(s))
             new(i) == IF i \in (mark.count + 1)..(mark.count + Len(s)) THEN s[i - mark.count] ELSE r.tag[i]
             e == Extended(s)
  <1>1. e = [r EXCEPT !.tag = [i \in DOMAIN r.tag |-> new(i)]]
    BY DEF Extended
  <1>2. PICK a \in Nat, b \in Nat, M \in Nat :
            /\ a = mark.count /\ a = mark.tags /\ b = Len(s) /\ M = Len(mark.tag) /\ a <= M
            /\ mark \in Tables /\ \A i \in 1..a : mark.tag[i] \in Msgno
    <2>1. Len(s) \in Nat
      OBVIOUS
    <2> QED BY <2>1, ArrayIs DEF Good
  <1>3. /\ r \in Tables /\ r = [tag |-> r.tag, tags |-> a + b, count |-> a + b] /\ a + b < Len(r.tag)
        /\ \A i \in 1..Len(r.tag) : r.tag[i] = IF i <= Len(mark.tag) THEN mark.tag[i] ELSE junk
    <2>1. a + b \in Nat /\ a + b = mark.count + Len(s)
      BY <1>2
    <2> QED BY <1>2, <2>1, ResizeIs
  <1> HIDE DEF r
  <1>4. PICK L \in Nat : L = Len(r.tag) /\ a + b < L /\ DOMAIN r.tag = 1..L /\ \A i \in 1..L : r.tag[i] \in Cells
    BY <1>3, TableIs
  <1>5. ASSUME NEW i \in 1..L
        PROVE  /\ i <= a => new(i) = mark.tag[i]
               /\ i > a /\ i <= a + b => i - a \in 1..b /\ new(i) = s[i - a]
               /\ i > a + b => new(i) = r.tag[i]
    <2>1. i \in (mark.count + 1)..(mark.count + Len(s)) <=> i > a /\ i <= a + b
      BY <1>2
    <2>2. r.tag[i] = IF i <= M THEN mark.tag[i] ELSE junk
      BY <1>2, <1>3, <1>4
    <2>3. i > a /\ i <= a + b => i - a \in 1..b
      OBVIOUS
    <2>4. i <= a => r.tag[i] = mark.tag[i]
      BY <1>2, <2>2
    <2> QED BY <1>2, <2>1, <2>3, <2>4
  <1>6. \A k \in 1..b : s[k] \in Msgno
    BY <1>2
  <1> HIDE DEF new
  <1>7. \A i \in 1..L : new(i) \in Cells /\ (i <= a + b => new(i) \in Msgno)
    <2>1. ASSUME NEW i \in 1..L PROVE new(i) \in Cells /\ (i <= a + b => new(i) \in Msgno)
      <3>1. CASE i <= a
        BY <1>2, <1>5, <3>1 DEF Cells
      <3>2. CASE i > a /\ i <= a + b
        BY <1>5, <1>6, <3>2 DEF Cells
      <3>3. CASE i > a + b
        BY <1>4, <1>5, <3>3
      <3> QED BY <3>1, <3>2, <3>3
    <2> QED BY <2>1
  <1>8. PICK v : v = [i \in 1..L |-> new(i)]
    OBVIOUS
  <1>9. v \in Seq(Cells) /\ Len(v) = L /\ \A i \in 1..L : v[i] = new(i)
    <2>1. v \in [1..L -> Cells]
      BY <1>7, <1>8
    <2> QED BY <1>8, <2>1
  <1>10. e = [tag |-> v, tags |-> a + b, count |-> a + b]
    <2>1. e = [r EXCEPT !.tag = v]
      BY <1>1, <1>4, <1>8
    <2> HIDE DEF e
    <2> QED BY <1>3, <2>1
  <1> HIDE DEF e
  <1>11. e \in Tables /\ e.tag = v /\ e.tags = a + b /\ e.count = a + b
    BY <1>9, <1>10 DEF Tables
  <1>12. \A i \in 1..e.tags : e.tag[i] \in Msgno
    BY <1>4, <1>7, <1>9, <1>11
  <1>13. Tag!Numbers(e) = Tag!Numbers(mark) \cup Range(s)
    <2>1. /\ Tag!Numbers(e) = {v[i] : i \in 1..(a + b)} /\ Tag!Numbers(mark) = {mark.tag[i] : i \in 1..a}
          /\ Range(s) = {s[k] : k \in 1..b}
      BY <1>2, <1>11 DEF Tag!Numbers, Range
    <2>2. ASSUME NEW i \in 1..(a + b)
          PROVE  v[i] \in {mark.tag[j] : j \in 1..a} \cup {s[k] : k \in 1..b}
      <3>1. i \in 1..L /\ v[i] = new(i)
        BY <1>4, <1>9
      <3>2. CASE i <= a
        BY <1>5, <3>1, <3>2
      <3>3. CASE i > a
        BY <1>5, <3>1, <3>3
      <3> QED BY <3>2, <3>3
    <2>3. ASSUME NEW i \in 1..a PROVE mark.tag[i] \in {v[j] : j \in 1..(a + b)}
      <3>1. i \in 1..(a + b) /\ i \in 1..L
        BY <1>4
      <3>2. v[i] = mark.tag[i]
        BY <1>5, <1>9, <3>1
      <3> QED BY <3>1, <3>2
    <2>4. ASSUME NEW k \in 1..b PROVE s[k] \in {v[j] : j \in 1..(a + b)}
      <3>1. a + k \in 1..(a + b) /\ a + k \in 1..L /\ a + k - a = k /\ a + k > a /\ a + k <= a + b
        BY <1>4
      <3>2. v[a + k] = s[k]
        BY <1>5, <1>9, <3>1
      <3> QED BY <3>1, <3>2
    <2> QED BY <2>1, <2>2, <2>3, <2>4
  <1> QED BY <1>4, <1>9, <1>11, <1>12, <1>13 DEF e

\* Numbers of messages are added to the marks all at once.
LEMMA MergeIs ==
    ASSUME junk \in Junk, Good(mark), NEW s \in Seq(Msgno)
    PROVE  LET u == Tag!ElimDups(Tag!Sort(Extended(s)))
           IN  Good(u) /\ Tag!Numbers(u) = Tag!Numbers(mark) \cup Range(s)
  <1> DEFINE e == Extended(s)
  <1>1. /\ e \in Tables /\ e.count = e.tags /\ e.tags < Len(e.tag)
        /\ \A i \in 1..e.tags : e.tag[i] \in Msgno
        /\ Tag!Numbers(e) = Tag!Numbers(mark) \cup Range(s)
    BY ExtendedIs
  <1> HIDE DEF e
  <1>2. Sorted(Tag!Sort(e)) /\ Tag!Numbers(Tag!Sort(e)) = Tag!Numbers(e)
    BY <1>1, SortIs
  <1>3. Good(Tag!ElimDups(Tag!Sort(e))) /\ Tag!Numbers(Tag!ElimDups(Tag!Sort(e))) = Tag!Numbers(Tag!Sort(e))
    BY <1>2, ElimIs
  <1> QED BY <1>1, <1>2, <1>3 DEF e

-----------------------------------------------------------------------------
\* What is being read, the parts of it that are marked, and marks added one after another.

\* Finite recursions: from v0, next is applied for 1, 2 and so on.
Steps(f, N, v0, next) ==
    f = [k \in 0..N |-> IF k = 0 THEN v0 ELSE next[<<f[k - 1], k>>]]

\* There is a finite recursion.
LEMMA StepsExist ==
    ASSUME NEW N \in Nat, NEW V, NEW v0 \in V, NEW next \in [V \X (1..N) -> V]
    PROVE  \E f \in [0..N -> V] : Steps(f, N, v0, next)
  <1> DEFINE S == 0..N
             value(p) == IF p[1] = 0 THEN v0 ELSE next[<<p[2][p[1] - 1], p[1]>>]
             step == [p \in S \X [S -> V] |-> value(p)]
             r == [k \in S |-> k]
  <1>1. r \in [S -> 0..N] /\ \A k \in S : r[k] = k
    OBVIOUS
  <1>2. ASSUME NEW x \in S, NEW f \in [S -> V], x # 0
        PROVE  x - 1 \in S /\ f[x - 1] \in V /\ <<f[x - 1], x>> \in V \X (1..N) /\ next[<<f[x - 1], x>>] \in V
    <2>1. x - 1 \in S /\ x \in 1..N
      BY <1>2
    <2>2. f[x - 1] \in V
      BY <2>1
    <2> QED BY <2>1, <2>2
  <1>3. \A x \in S : \A f \in [S -> V] : step[<<x, f>>] = IF x = 0 THEN v0 ELSE next[<<f[x - 1], x>>]
    OBVIOUS
  <1>4. step \in [S \X [S -> V] -> V]
    <2>1. ASSUME NEW p \in S \X [S -> V] PROVE value(p) \in V
      <3>1. PICK x \in S, f \in [S -> V] : p = <<x, f>>
        OBVIOUS
      <3>2. value(p) = IF x = 0 THEN v0 ELSE next[<<f[x - 1], x>>]
        BY <3>1
      <3> QED BY <1>2, <3>2
    <2> HIDE DEF value
    <2> QED BY <2>1
  <1>5. LooksBelow(step, r, S, V)
    <2>1. ASSUME NEW x \in S, NEW f \in [S -> V], NEW g \in [S -> V],
                 \A y \in S : r[y] < r[x] => f[y] = g[y]
          PROVE  step[<<x, f>>] = step[<<x, g>>]
      <3>1. CASE x = 0
        BY <1>3, <3>1
      <3>2. CASE x # 0
        <4>1. x - 1 \in S /\ x - 1 < x
          BY <3>2
        <4>2. f[x - 1] = g[x - 1]
          BY <1>1, <2>1, <4>1
        <4> QED BY <1>3, <3>2, <4>2
      <3> QED BY <3>1, <3>2
    <2> QED BY <2>1 DEF LooksBelow
  <1> HIDE DEF step, r, S
  <1>6. PICK f \in [S -> V] : Recursive(f, S, step)
    <2>1. r \in [S -> 0..N]
      BY <1>1
    <2> QED BY <1>4, <1>5, <2>1, RecursionExists
  <1>7. \A x \in S : f[x] = IF x = 0 THEN v0 ELSE next[<<f[x - 1], x>>]
    BY <1>3, <1>6 DEF Recursive
  <1>8. f = [x \in S |-> f[x]]
    OBVIOUS
  <1>9. f = [x \in S |-> IF x = 0 THEN v0 ELSE next[<<f[x - 1], x>>]]
    BY <1>7, <1>8
  <1> QED BY <1>6, <1>9 DEF Steps, S

-----------------------------------------------------------------------------
\* The messages of the area as the marking commands find them.
Read ==
    /\ Rises(msgn, Present) /\ Present \subseteq Msgno
    /\ lastread \in 1..MsgnCount /\ bookmark \in Msgno \cup {0}
    /\ junk \in Junk

\* What is being read, as an array of message numbers.
LEMMA ReadIs ==
    ASSUME Read
    PROVE  /\ msgn \in Seq(Msgno) /\ MsgnCount \in Nat /\ DOMAIN msgn = 1..MsgnCount
           /\ Present = {msgn[i] : i \in 1..MsgnCount} /\ Present = Range(msgn)
           /\ \A i \in 1..MsgnCount : msgn[i] \in Nat /\ msgn[i] \in Present /\ msgn[i] \in Msgno /\ msgn[i] # 0
           /\ \A i, j \in 1..MsgnCount : i < j => msgn[i] < msgn[j]
           /\ lastread \in Nat /\ lastread <= MsgnCount
           /\ current = msgn[lastread] /\ current \in Present /\ current \in Msgno /\ current \in Nat
           /\ \A m \in Present : m \in Nat
  <1>1. /\ msgn \in Seq(Nat) /\ Range(msgn) = Present /\ MsgnCount \in Nat /\ DOMAIN msgn = 1..MsgnCount
        /\ \A i, j \in 1..MsgnCount : i < j => msgn[i] < msgn[j]
    BY DEF Read, Rises, MsgnCount
  <1>2. Present = {msgn[i] : i \in 1..MsgnCount}
    BY <1>1 DEF Present
  <1>3. \A i \in 1..MsgnCount : msgn[i] \in Nat /\ msgn[i] \in Present /\ msgn[i] \in Msgno /\ msgn[i] # 0
    BY <1>1, <1>2, MsgnoNat DEF Read
  <1>4. msgn \in Seq(Msgno)
    <2>1. msgn \in [1..MsgnCount -> Msgno]
      BY <1>1, <1>3
    <2> QED BY <1>1, <2>1
  <1>5. lastread \in 1..MsgnCount
    BY DEF Read
  <1>6. current = msgn[lastread]
    BY DEF current
  <1>7. /\ current \in Present /\ current \in Msgno /\ current \in Nat
        /\ lastread \in Nat /\ lastread <= MsgnCount
    BY <1>1, <1>3, <1>5, <1>6
  <1>8. \A q \in Present : q \in Nat
    BY <1>2, <1>3
  <1> QED BY <1>1, <1>2, <1>3, <1>4, <1>6, <1>7, <1>8

\* What stands between two places of the list.
LEMMA PartIs ==
    ASSUME Read, NEW a \in Nat \ {0}, NEW b \in Nat, b <= MsgnCount
    PROVE  LET s == SubSeq(msgn, a, b)
           IN  s \in Seq(Msgno) /\ Range(s) = {msgn[i] : i \in a..b}
  <1> DEFINE s == SubSeq(msgn, a, b)
  <1>1. msgn \in Seq(Msgno) /\ MsgnCount \in Nat /\ \A i \in 1..MsgnCount : msgn[i] \in Msgno
    BY ReadIs
  <1>2. CASE a <= b
    <2>1. PICK n \in Nat : n = b - a + 1
      BY <1>2
    <2>2. Len(s) = n /\ DOMAIN s = 1..n /\ \A k \in 1..n : s[k] = msgn[a + k - 1]
      BY <1>1, <1>2, <2>1 DEF MsgnCount
    <2>3. \A k \in 1..n : a + k - 1 \in a..b /\ a + k - 1 \in 1..MsgnCount
      BY <1>1, <2>1
    <2>4. s \in Seq(Msgno)
      BY <1>1
    <2> HIDE DEF s
    <2>5. Range(s) = {s[k] : k \in 1..n}
      BY <2>2 DEF Range
    <2>6. \A k \in 1..n : s[k] \in {msgn[i] : i \in a..b}
      BY <2>2, <2>3
    <2>7. ASSUME NEW i \in a..b PROVE msgn[i] \in {s[k] : k \in 1..n}
      <3>1. i - a + 1 \in 1..n /\ a + (i - a + 1) - 1 = i
        BY <2>1
      <3>2. s[i - a + 1] = msgn[i]
        BY <2>2, <3>1
      <3> QED BY <3>1, <3>2
    <2>8. Range(s) = {msgn[i] : i \in a..b}
      BY <2>5, <2>6, <2>7
    <2> QED BY <2>4, <2>8 DEF s
  <1>3. CASE ~(a <= b)
    <2>1. s = <<>>
      BY <1>1, <1>3 DEF MsgnCount
    <2>2. a..b = {}
      BY <1>3
    <2> QED BY <2>1, <2>2 DEF Range
  <1> QED BY <1>2, <1>3

\* Cells that are written over with a list in order.
Filled(r, s) == [r EXCEPT !.tag = [i \in DOMAIN r.tag |-> IF i <= Len(s) THEN s[i] ELSE r.tag[i]]]

\* Writing numbers over the first cells of an array.
LEMMA FillIs ==
    ASSUME NEW r, r \in Tables, NEW R, NEW s, Rises(s, R), R \subseteq Msgno,
           r.tags = Len(s), r.count = Len(s), Len(s) < Len(r.tag)
    PROVE  Good(Filled(r, s)) /\ Tag!Numbers(Filled(r, s)) = R
  <1> DEFINE new(i) == IF i <= Len(s) THEN s[i] ELSE r.tag[i]
             u == [r EXCEPT !.tag = [i \in DOMAIN r.tag |-> new(i)]]
  <1>1. PICK n \in Nat : /\ n = Len(s) /\ DOMAIN s = 1..n /\ R = {s[i] : i \in 1..n}
                         /\ \A i, j \in 1..n : i < j => s[i] < s[j]
    <2>1. s \in Seq(Nat) /\ Range(s) = R /\ \A i, j \in 1..Len(s) : i < j => s[i] < s[j]
      BY DEF Rises
    <2>2. Len(s) \in Nat /\ DOMAIN s = 1..Len(s)
      BY <2>1
    <2> QED BY <2>1, <2>2 DEF Range
  <1>2. PICK L \in Nat : /\ L = Len(r.tag) /\ DOMAIN r.tag = 1..L /\ n < L
                         /\ \A i \in 1..L : r.tag[i] \in Cells
    BY <1>1, TableIs
  <1>3. \A i \in 1..n : s[i] \in Msgno
    BY <1>1
  <1>4. \A i \in 1..L : new(i) \in Cells /\ (i <= n => new(i) = s[i])
    <2>1. ASSUME NEW i \in 1..L PROVE new(i) \in Cells /\ (i <= n => new(i) = s[i])
      <3>1. CASE i <= n
        BY <1>1, <1>3, <3>1 DEF Cells
      <3>2. CASE ~(i <= n)
        BY <1>1, <1>2, <3>2
      <3> QED BY <3>1, <3>2
    <2> QED BY <2>1
  <1> HIDE DEF new
  <1>5. PICK v : v = [i \in 1..L |-> new(i)]
    OBVIOUS
  <1>6. v \in Seq(Cells) /\ Len(v) = L /\ \A i \in 1..n : v[i] = s[i]
    <2>1. v \in [1..L -> Cells]
      BY <1>4, <1>5
    <2>2. \A i \in 1..n : i \in 1..L
      BY <1>2
    <2> QED BY <1>4, <1>5, <2>1, <2>2
  <1>7. u = [tag |-> v, tags |-> n, count |-> n]
    <2>1. u = [r EXCEPT !.tag = v]
      BY <1>2, <1>5
    <2>2. r = [tag |-> r.tag, tags |-> n, count |-> n]
      BY <1>1 DEF Tables
    <2> HIDE DEF u
    <2> QED BY <2>1, <2>2
  <1> HIDE DEF u
  <1>8. u \in Tables /\ u.tag = v /\ u.tags = n /\ u.count = n
    BY <1>6, <1>7 DEF Tables
  <1>9. \A i \in 1..u.tags : u.tag[i] \in Msgno
    BY <1>3, <1>6, <1>8
  <1>10. \A i, j \in 1..u.tags : i < j => u.tag[i] < u.tag[j]
    BY <1>1, <1>6, <1>8
  <1>11. Good(u)
    BY <1>2, <1>6, <1>8, <1>9, <1>10, GoodBy
  <1>12. Tag!Numbers(u) = {v[i] : i \in 1..n}
    BY <1>8 DEF Tag!Numbers
  <1>13. Tag!Numbers(u) = R
    BY <1>1, <1>6, <1>12
  <1> QED BY <1>11, <1>13 DEF u, new, Filled

\* Adding numbers one after another.
LEMMA AddedIs ==
    ASSUME junk \in Junk, Good(mark), NEW S, S \subseteq Msgno
    PROVE  Good(Added(S)) /\ Tag!Numbers(Added(S)) = Tag!Numbers(mark) \cup S
  <1>1. PICK b \in Nat : S \subseteq 1..b
    BY MsgnoNat
  <1> DEFINE new == InOrder(S)
             N == Len(new)
             V == {t \in Tables : Good(t)}
             next == [p \in V \X (1..N) |-> Tag!Add(p[1], new[p[2]])]
             add == CHOOSE add : add = [k \in 0..N |-> IF k = 0 THEN mark ELSE Tag!Add(add[k - 1], new[k])]
  <1>2. Added(S) = add[N]
    BY Zenon DEF Added
  <1>3. /\ Rises(new, S) /\ N \in Nat /\ DOMAIN new = 1..N /\ S = {new[i] : i \in 1..N}
        /\ \A i \in 1..N : new[i] \in Msgno
    <2>1. Rises(new, S)
      BY <1>1, InOrderRises
    <2>2. new \in Seq(Nat) /\ Range(new) = S
      BY <2>1 DEF Rises
    <2> HIDE DEF new
    <2>3. Len(new) \in Nat /\ DOMAIN new = 1..Len(new)
      BY <2>2
    <2>4. S = {new[i] : i \in 1..Len(new)}
      BY <2>2, <2>3 DEF Range
    <2> QED BY <2>1, <2>3, <2>4
  <1> HIDE DEF new, N
  <1>4. \A t \in V : \A i \in 1..N : Tag!Add(t, new[i]) \in V
    <2>1. ASSUME NEW t \in V, NEW i \in 1..N PROVE Tag!Add(t, new[i]) \in V
      <3>1. new[i] \in Msgno /\ Good(t)
        BY <1>3
      <3>2. Good(Tag!Add(t, new[i]))
        BY <3>1, AddIs
      <3> QED BY <3>2 DEF Good, Array
    <2> QED BY <2>1
  <1>5. mark \in V
    BY DEF Good, Array
  <1> HIDE DEF V
  <1>6. next \in [V \X (1..N) -> V] /\ \A t \in V : \A i \in 1..N : next[<<t, i>>] = Tag!Add(t, new[i])
    BY <1>4
  <1> HIDE DEF next
  <1>7. PICK f \in [0..N -> V] : Steps(f, N, mark, next)
    BY <1>3, <1>5, <1>6, StepsExist
  <1>8. f = [k \in 0..N |-> IF k = 0 THEN mark ELSE Tag!Add(f[k - 1], new[k])]
    <2>1. \A k \in 0..N : f[k] = IF k = 0 THEN mark ELSE next[<<f[k - 1], k>>]
      BY <1>7 DEF Steps
    <2>2. \A k \in 0..N : k # 0 => k \in 1..N /\ k - 1 \in 0..N
      BY <1>3
    <2>3. \A k \in 0..N : f[k] = IF k = 0 THEN mark ELSE Tag!Add(f[k - 1], new[k])
      BY <1>6, <2>1, <2>2
    <2>4. f = [k \in 0..N |-> f[k]]
      OBVIOUS
    <2> QED BY <2>3, <2>4
  <1>9. add = [k \in 0..N |-> IF k = 0 THEN mark ELSE Tag!Add(add[k - 1], new[k])]
    BY <1>8, Zenon
  <1> HIDE DEF add
  <1>10. add[0] = mark /\ \A k \in Nat : k + 1 \in 0..N => add[k + 1] = Tag!Add(add[k], new[k + 1])
    <2>1. add[0] = mark
      BY <1>3, <1>9
    <2>2. ASSUME NEW k \in Nat, k + 1 \in 0..N PROVE add[k + 1] = Tag!Add(add[k], new[k + 1])
      <3>1. k + 1 # 0 /\ k + 1 - 1 = k
        OBVIOUS
      <3>2. \A j \in 0..N : add[j] = IF j = 0 THEN mark ELSE Tag!Add(add[j - 1], new[j])
        BY <1>9, Zenon
      <3>3. add[k + 1] = IF k + 1 = 0 THEN mark ELSE Tag!Add(add[k + 1 - 1], new[k + 1])
        BY <2>2, <3>2
      <3> QED BY <3>1, <3>3
    <2> QED BY <2>1, <2>2
  <1> DEFINE Q == {k \in Nat : k \in 0..N => /\ Good(add[k])
                                              /\ Tag!Numbers(add[k]) = Tag!Numbers(mark) \cup {new[i] : i \in 1..k}}
  <1>11. 0 \in Q
    <2>1. {new[i] : i \in 1..0} = {}
      OBVIOUS
    <2> QED BY <1>10, <2>1
  <1>12. ASSUME NEW k \in Nat, k \in Q PROVE k + 1 \in Q
    <2> SUFFICES ASSUME k + 1 \in 0..N
                 PROVE  /\ Good(add[k + 1])
                        /\ Tag!Numbers(add[k + 1]) = Tag!Numbers(mark) \cup {new[i] : i \in 1..(k + 1)}
      OBVIOUS
    <2>1. k \in 0..N /\ k + 1 \in 1..N
      BY <1>3
    <2>2. Good(add[k]) /\ Tag!Numbers(add[k]) = Tag!Numbers(mark) \cup {new[i] : i \in 1..k}
      BY <1>12, <2>1
    <2>3. new[k + 1] \in Msgno /\ add[k + 1] = Tag!Add(add[k], new[k + 1])
      BY <1>3, <1>10, <2>1
    <2>4. Good(add[k + 1]) /\ Tag!Numbers(add[k + 1]) = Tag!Numbers(add[k]) \cup {new[k + 1]}
      BY <2>2, <2>3, AddIs
    <2>5. {new[i] : i \in 1..(k + 1)} = {new[i] : i \in 1..k} \cup {new[k + 1]}
      <3>1. 1..(k + 1) = 1..k \cup {k + 1}
        OBVIOUS
      <3> QED BY <3>1
    <2> QED BY <2>2, <2>4, <2>5
  <1>13. N \in Q
    <2> HIDE DEF Q
    <2> QED BY <1>3, <1>11, <1>12, Induction
  <1>14. N \in 0..N
    BY <1>3
  <1> QED BY <1>2, <1>3, <1>13, <1>14

-----------------------------------------------------------------------------
\* The thread of the message on screen, and the walk of a toggle.

\* The thread of the message on screen is of messages there are: those it goes
\* back to, and what answers the first of them.
LEMMA ThreadIs ==
    ASSUME Read
    PROVE  ThreadNumbers \subseteq Msgno /\ ThreadNumbers = MarkedSet!Lineage \cup MarkedSet!Answers
  <1> DEFINE M0 == Msgno \cup {0}
             V == SUBSET Msgno
             up == CHOOSE up : up = [m \in M0 |-> IF m \in Present THEN {m} \cup up[ReplyTo[m]] ELSE {}]
             root == CHOOSE m \in up[current] : ReplyTo[m] \notin up[current]
             down == CHOOSE down : down = [m \in Msgno |->
                         IF m \in Present THEN Replies[m] \cup UNION {down[r] : r \in Replies[m]} ELSE {}]
  <1>1. ThreadNumbers = up[current] \cup down[root]
    BY Zenon DEF ThreadNumbers
  <1>2. PICK b \in Nat : Msgno \subseteq 1..b
    BY MsgnoNat
  <1>3. Msgno \subseteq Nat /\ 0 \notin Msgno /\ Present \subseteq Msgno /\ current \in Present
    BY MsgnoNat, ReadIs DEF Read
  <1>4. \A m \in Msgno : /\ ReplyTo[m] \in M0 /\ ReplyTo[m] \in Nat /\ ReplyTo[m] < m
                         /\ Replies[m] \subseteq Msgno /\ \A r \in Replies[m] : r > m
    <2>1. ASSUME NEW m \in Msgno
          PROVE  /\ ReplyTo[m] \in M0 /\ ReplyTo[m] < m
                 /\ \A r \in Replies[m] : r \in Msgno /\ r > m
      BY LinkAssumption
    <2>2. M0 \subseteq Nat
      BY <1>3
    <2> HIDE DEF M0
    <2> QED BY <2>1, <2>2
  <1>5. {} \in V
    OBVIOUS
  \* Up.
  <1>6. \E f : f = [m \in M0 |-> IF m \in Present THEN {m} \cup f[ReplyTo[m]] ELSE {}]
    <2> DEFINE value(m, f) == IF m \in Present THEN {m} \cup f[ReplyTo[m]] ELSE {}
               step == [p \in M0 \X [M0 -> V] |-> value(p[1], p[2])]
               r == [m \in M0 |-> m]
    <2>1. r \in [M0 -> 0..b] /\ \A m \in M0 : r[m] = m
      <3>1. \A m \in M0 : m \in 0..b
        BY <1>2
      <3> QED BY <3>1
    <2>2. \A m \in M0 : \A f \in [M0 -> V] : value(m, f) \in V
      BY <1>3, <1>4
    <2>3. step \in [M0 \X [M0 -> V] -> V] /\ \A m \in M0 : \A f \in [M0 -> V] : step[<<m, f>>] = value(m, f)
      BY <2>2
    <2> HIDE DEF step, r
    <2>4. LooksBelow(step, r, M0, V)
      <3>1. ASSUME NEW x \in M0, NEW f \in [M0 -> V], NEW g \in [M0 -> V],
                   \A y \in M0 : r[y] < r[x] => f[y] = g[y]
            PROVE  step[<<x, f>>] = step[<<x, g>>]
        <4>1. value(x, f) = value(x, g)
          <5>1. CASE x \in Present
            <6>1. x \in Msgno /\ ReplyTo[x] \in M0 /\ ReplyTo[x] < x
              BY <1>3, <1>4, <5>1
            <6>2. f[ReplyTo[x]] = g[ReplyTo[x]]
              BY <2>1, <3>1, <6>1
            <6> QED BY <6>2
          <5>2. CASE x \notin Present
            BY <5>2
          <5> QED BY <5>1, <5>2
        <4> HIDE DEF value
        <4> QED BY <2>3, <4>1
      <3> HIDE DEF M0, V
      <3> QED BY <3>1 DEF LooksBelow
    <2> HIDE DEF M0, V
    <2>5. r \in [M0 -> 0..b]
      BY <2>1
    <2>6. PICK f \in [M0 -> V] : Recursive(f, M0, step)
      BY <1>5, <2>3, <2>4, <2>5, RecursionExists
    <2>7. \A m \in M0 : f[m] = value(m, f)
      BY <2>3, <2>6 DEF Recursive
    <2>8. f = [m \in M0 |-> f[m]]
      OBVIOUS
    <2>9. f = [m \in M0 |-> value(m, f)]
      <3> HIDE DEF value
      <3> QED BY <2>7, <2>8
    <2> QED BY <2>9, Zenon
  <1>7. up = [m \in M0 |-> IF m \in Present THEN {m} \cup up[ReplyTo[m]] ELSE {}]
    BY <1>6, Zenon
  \* Down.
  <1>8. \E f : f = [m \in Msgno |->
                       IF m \in Present THEN Replies[m] \cup UNION {f[r] : r \in Replies[m]} ELSE {}]
    <2> DEFINE value(m, f) == IF m \in Present THEN Replies[m] \cup UNION {f[r] : r \in Replies[m]} ELSE {}
               step == [p \in Msgno \X [Msgno -> V] |-> value(p[1], p[2])]
               r == [m \in Msgno |-> b - m]
    <2>1. r \in [Msgno -> 0..b] /\ \A m \in Msgno : r[m] = b - m
      <3>1. \A m \in Msgno : b - m \in 0..b
        BY <1>2
      <3> QED BY <3>1
    <2>2. \A m \in Msgno : \A f \in [Msgno -> V] : value(m, f) \in V
      BY <1>4
    <2>3. /\ step \in [Msgno \X [Msgno -> V] -> V]
          /\ \A m \in Msgno : \A f \in [Msgno -> V] : step[<<m, f>>] = value(m, f)
      BY <2>2
    <2> HIDE DEF step, r
    <2>4. LooksBelow(step, r, Msgno, V)
      <3>1. ASSUME NEW x \in Msgno, NEW f \in [Msgno -> V], NEW g \in [Msgno -> V],
                   \A y \in Msgno : r[y] < r[x] => f[y] = g[y]
            PROVE  step[<<x, f>>] = step[<<x, g>>]
        <4>1. ASSUME NEW y \in Replies[x] PROVE f[y] = g[y]
          <5>1. y \in Msgno /\ y > x
            BY <1>4
          <5>2. x \in Nat /\ y \in Nat
            BY <1>3, <5>1
          <5>3. b - y < b - x
            BY <5>1, <5>2
          <5> QED BY <2>1, <3>1, <5>1, <5>3
        <4>2. {f[y] : y \in Replies[x]} = {g[y] : y \in Replies[x]}
          BY <4>1
        <4>3. value(x, f) = value(x, g)
          BY <4>2, Zenon
        <4> HIDE DEF value
        <4> QED BY <2>3, <4>3
      <3> HIDE DEF V
      <3> QED BY <3>1 DEF LooksBelow
    <2> HIDE DEF V
    <2>5. r \in [Msgno -> 0..b]
      BY <2>1
    <2>6. PICK f \in [Msgno -> V] : Recursive(f, Msgno, step)
      BY <1>5, <2>3, <2>4, <2>5, RecursionExists
    <2>7. \A m \in Msgno : f[m] = value(m, f)
      BY <2>3, <2>6 DEF Recursive
    <2>8. f = [m \in Msgno |-> f[m]]
      OBVIOUS
    <2>9. f = [m \in Msgno |-> value(m, f)]
      <3> HIDE DEF value
      <3> QED BY <2>7, <2>8
    <2> QED BY <2>9, Zenon
  <1>9. down = [m \in Msgno |->
                   IF m \in Present THEN Replies[m] \cup UNION {down[r] : r \in Replies[m]} ELSE {}]
    BY <1>8, Zenon
  <1> HIDE DEF up, down
  <1>10. \A m \in M0 : up[m] = IF m \in Present THEN {m} \cup up[ReplyTo[m]] ELSE {}
    BY <1>7, Zenon
  <1>11. \A m \in Msgno :
             down[m] = IF m \in Present THEN Replies[m] \cup UNION {down[r] : r \in Replies[m]} ELSE {}
    BY <1>9, Zenon
  <1>12. ASSUME NEW m \in M0 PROVE up[m] \subseteq Msgno
    <2> SUFFICES ASSUME ~(up[m] \subseteq Msgno) PROVE FALSE
      OBVIOUS
    <2> DEFINE B == {x \in M0 : ~(up[x] \subseteq Msgno)}
    <2>1. PICK x \in B : \A y \in B : x <= y
      <3>0. m \in B /\ M0 \subseteq Nat /\ B \subseteq M0
        BY <1>3
      <3>1. B # {} /\ B \subseteq Nat
        BY <3>0, Zenon
      <3> HIDE DEF B
      <3> QED BY <3>1, LeastNumber
    <2>2. x \in Present /\ x \in Msgno
      BY <1>3, <1>10
    <2>3. ReplyTo[x] \in M0 /\ ReplyTo[x] < x /\ ReplyTo[x] \in Nat /\ x \in Nat
      BY <1>3, <1>4, <2>2
    <2>4. ReplyTo[x] \notin B
      BY <2>1, <2>3
    <2>5. up[ReplyTo[x]] \subseteq Msgno
      BY <2>3, <2>4
    <2>6. up[x] = {x} \cup up[ReplyTo[x]]
      BY <1>10, <2>2
    <2> QED BY <2>2, <2>5, <2>6
  <1>13. ASSUME NEW m \in Msgno PROVE down[m] \subseteq Msgno
    <2> SUFFICES ASSUME ~(down[m] \subseteq Msgno) PROVE FALSE
      OBVIOUS
    <2> DEFINE B == {x \in Msgno : ~(down[x] \subseteq Msgno)}
    <2>1. PICK x \in B : \A y \in B : y <= x
      <3>0. m \in B /\ 1..b \subseteq 0..b /\ B \subseteq Msgno
        OBVIOUS
      <3>1. B # {} /\ B \subseteq 0..b
        BY <1>2, <3>0, Zenon
      <3> HIDE DEF B
      <3> QED BY <3>1, GreatestNumber
    <2>2. x \in Present /\ x \in Msgno
      BY <1>11
    <2>3. ASSUME NEW r \in Replies[x] PROVE r \in Msgno /\ down[r] \subseteq Msgno
      <3>1. r \in Msgno /\ r > x /\ r \in Nat /\ x \in Nat
        BY <1>3, <1>4, <2>2
      <3> QED BY <2>1, <3>1
    <2>4. down[x] = Replies[x] \cup UNION {down[r] : r \in Replies[x]}
      BY <1>11, <2>2
    <2> QED BY <2>3, <2>4
  <1>14. root \in up[current]
    <2>1. up[current] \subseteq Msgno /\ up[current] \subseteq Nat /\ current \in up[current]
      BY <1>3, <1>10, <1>12
    <2>2. PICK x \in up[current] : \A y \in up[current] : x <= y
      BY <2>1, LeastNumber
    <2>3. ReplyTo[x] \in Nat /\ ReplyTo[x] < x /\ x \in Nat
      BY <1>4, <2>1
    <2>4. ReplyTo[x] \notin up[current]
      BY <2>2, <2>3
    <2> QED BY <2>4
  \* What up gives is closed, and in every closed set.
  <1>15. ASSUME NEW m \in M0
         PROVE  up[m] \subseteq Present /\ \A s \in up[m] : ReplyTo[s] \in Present => ReplyTo[s] \in up[m]
    <2> DEFINE Closed(x) == up[x] \subseteq Present /\ \A s \in up[x] : ReplyTo[s] \in Present => ReplyTo[s] \in up[x]
               B == {x \in M0 : ~Closed(x)}
    <2> SUFFICES ASSUME ~Closed(m) PROVE FALSE
      OBVIOUS
    <2>1. PICK x \in B : \A y \in B : x <= y
      <3>0. m \in B /\ M0 \subseteq Nat /\ B \subseteq M0
        BY <1>3
      <3>1. B # {} /\ B \subseteq Nat
        BY <3>0, Zenon
      <3> HIDE DEF B
      <3> QED BY <3>1, LeastNumber
    <2>2. x \in Present /\ x \in Msgno /\ ~Closed(x)
      <3>1. x \notin Present => up[x] = {}
        BY <1>10, <2>1
      <3> QED BY <1>3, <2>1, <3>1
    <2>3. ReplyTo[x] \in M0 /\ ReplyTo[x] < x /\ ReplyTo[x] \in Nat /\ x \in Nat
      BY <1>3, <1>4, <2>2
    <2>4. Closed(ReplyTo[x])
      BY <2>1, <2>3
    <2>5. up[x] = {x} \cup up[ReplyTo[x]]
      BY <1>10, <2>2
    <2>6. ReplyTo[x] \in Present => ReplyTo[x] \in up[ReplyTo[x]]
      BY <1>10, <2>3
    <2> QED BY <2>2, <2>4, <2>5, <2>6
  <1>16. ASSUME NEW S, \A s \in S : ReplyTo[s] \in Present => ReplyTo[s] \in S,
                NEW m \in Present \cap S
         PROVE  up[m] \subseteq S
    <2> DEFINE B == {x \in Present \cap S : ~(up[x] \subseteq S)}
    <2> SUFFICES ASSUME ~(up[m] \subseteq S) PROVE FALSE
      OBVIOUS
    <2>1. PICK x \in B : \A y \in B : x <= y
      <3>0. m \in B /\ Present \subseteq Nat /\ B \subseteq Present
        BY <1>3
      <3>1. B # {} /\ B \subseteq Nat
        BY <3>0, Zenon
      <3> HIDE DEF B
      <3> QED BY <3>1, LeastNumber
    <2>2. x \in Present /\ x \in Msgno /\ x \in S
      BY <1>3, <2>1
    <2>3. ReplyTo[x] \in M0 /\ ReplyTo[x] < x /\ ReplyTo[x] \in Nat /\ x \in Nat
      BY <1>3, <1>4, <2>2
    <2>4. up[x] = {x} \cup up[ReplyTo[x]]
      BY <1>10, <2>2
    <2>5. up[ReplyTo[x]] \subseteq S
      <3>1. CASE ReplyTo[x] \in Present
        BY <1>16, <2>1, <2>2, <2>3, <3>1
      <3>2. CASE ReplyTo[x] \notin Present
        BY <1>10, <2>3, <3>2
      <3> QED BY <3>1, <3>2
    <2> QED BY <2>1, <2>2, <2>4, <2>5
  <1>17. up[current] = MarkedSet!Lineage
    <2>1. current \in M0 /\ current \in up[current]
      BY <1>3, <1>10
    <2>2. /\ up[current] \subseteq Present
          /\ \A s \in up[current] : ReplyTo[s] \in Present => ReplyTo[s] \in up[current]
      BY <1>15, <2>1
    <2>3. ASSUME NEW m \in MarkedSet!Lineage PROVE m \in up[current]
      BY <2>1, <2>2, <2>3 DEF MarkedSet!Lineage
    <2>4. ASSUME NEW m \in up[current] PROVE m \in MarkedSet!Lineage
      <3>1. ASSUME NEW S \in SUBSET Present,
                   current \in S, \A s \in S : ReplyTo[s] \in Present => ReplyTo[s] \in S
            PROVE  m \in S
        BY <1>3, <1>16, <2>4, <3>1
      <3> QED BY <2>2, <2>4, <3>1 DEF MarkedSet!Lineage
    <2> QED BY <2>3, <2>4
  <1>18. root = MarkedSet!Origin
    BY <1>17 DEF MarkedSet!Origin
  <1> HIDE DEF root
  \* So is what down gives.
  <1>19. ASSUME NEW m \in Msgno
         PROVE  \A s \in down[m] \cap Present : Replies[s] \subseteq down[m]
    <2> DEFINE Closed(x) == \A s \in down[x] \cap Present : Replies[s] \subseteq down[x]
               B == {x \in Msgno : ~Closed(x)}
    <2> SUFFICES ASSUME ~Closed(m) PROVE FALSE
      OBVIOUS
    <2>1. PICK x \in B : \A y \in B : y <= x
      <3>0. m \in B /\ 1..b \subseteq 0..b /\ B \subseteq Msgno
        OBVIOUS
      <3>1. B # {} /\ B \subseteq 0..b
        BY <1>2, <3>0, Zenon
      <3> HIDE DEF B
      <3> QED BY <3>1, GreatestNumber
    <2>2. x \in Present /\ x \in Msgno /\ ~Closed(x)
      <3>1. x \notin Present => down[x] = {}
        BY <1>11, <2>1
      <3> QED BY <2>1, <3>1
    <2>3. down[x] = Replies[x] \cup UNION {down[r] : r \in Replies[x]}
      BY <1>11, <2>2
    <2>4. ASSUME NEW r \in Replies[x] PROVE r \in Msgno /\ Closed(r) /\ down[r] \subseteq down[x]
      <3>1. r \in Msgno /\ r > x /\ r \in Nat /\ x \in Nat
        BY <1>3, <1>4, <2>2
      <3>2. Closed(r)
        BY <2>1, <3>1
      <3> QED BY <2>3, <3>1, <3>2
    <2>5. ASSUME NEW s \in down[x] \cap Present PROVE Replies[s] \subseteq down[x]
      <3>1. CASE s \in Replies[x]
        <4>1. down[s] = Replies[s] \cup UNION {down[r] : r \in Replies[s]}
          BY <1>11, <2>4, <2>5, <3>1
        <4> QED BY <2>4, <3>1, <4>1
      <3>2. ASSUME NEW r \in Replies[x], s \in down[r] PROVE Replies[s] \subseteq down[x]
        BY <2>4, <2>5, <3>2
      <3> QED BY <2>3, <2>5, <3>1, <3>2
    <2> QED BY <2>2, <2>5
  <1>20. ASSUME NEW S, \A s \in S \cap Present : Replies[s] \subseteq S,
                NEW m \in Msgno, m \in Present => Replies[m] \subseteq S
         PROVE  down[m] \subseteq S
    <2> DEFINE Starts(x) == x \in Present => Replies[x] \subseteq S
               B == {x \in Msgno : Starts(x) /\ ~(down[x] \subseteq S)}
    <2> SUFFICES ASSUME ~(down[m] \subseteq S) PROVE FALSE
      OBVIOUS
    <2>1. PICK x \in B : \A y \in B : y <= x
      <3>0. m \in B /\ 1..b \subseteq 0..b /\ B \subseteq Msgno
        BY <1>20
      <3>1. B # {} /\ B \subseteq 0..b
        BY <1>2, <3>0, Zenon
      <3> HIDE DEF B
      <3> QED BY <3>1, GreatestNumber
    <2>2. x \in Present /\ x \in Msgno /\ Replies[x] \subseteq S /\ ~(down[x] \subseteq S)
      <3>1. x \notin Present => down[x] = {}
        BY <1>11, <2>1
      <3> QED BY <2>1, <3>1
    <2>3. down[x] = Replies[x] \cup UNION {down[r] : r \in Replies[x]}
      BY <1>11, <2>2
    <2>4. ASSUME NEW r \in Replies[x] PROVE down[r] \subseteq S
      <3>1. r \in Msgno /\ r > x /\ r \in Nat /\ x \in Nat
        BY <1>3, <1>4, <2>2
      <3>2. Starts(r)
        BY <1>20, <2>2
      <3> QED BY <2>1, <3>1, <3>2
    <2> QED BY <2>2, <2>3, <2>4
  <1>21. root \in Present /\ root \in Msgno
    BY <1>3, <1>14, <1>15
  <1>22. down[root] = MarkedSet!Answers
    <2>1. Replies[root] \subseteq down[root] /\ down[root] \subseteq Msgno
      BY <1>11, <1>13, <1>21
    <2>2. \A s \in down[root] \cap Present : Replies[s] \subseteq down[root]
      BY <1>19, <1>21
    <2>3. ASSUME NEW m \in MarkedSet!Answers PROVE m \in down[root]
      BY <1>18, <2>1, <2>2, <2>3 DEF MarkedSet!Answers
    <2>4. ASSUME NEW m \in down[root] PROVE m \in MarkedSet!Answers
      <3>1. ASSUME NEW S \in SUBSET Msgno,
                   Replies[root] \subseteq S, \A s \in S \cap Present : Replies[s] \subseteq S
            PROVE  m \in S
        BY <1>20, <1>21, <2>4, <3>1
      <3> QED BY <1>18, <2>1, <2>4, <3>1 DEF MarkedSet!Answers
    <2> QED BY <2>3, <2>4
  <1>23. up[current] \subseteq Msgno /\ down[root] \subseteq Msgno
    BY <1>3, <1>12, <1>13, <1>14
  <1> QED BY <1>1, <1>17, <1>22, <1>23

-----------------------------------------------------------------------------
\* The walk of MarkMsgs_Toggle.  After n messages the old marks before x are
\* among them and the others are not, and out has those that were not marked.
Walked(w, n) ==
    LET seen == {msgn[j] : j \in 1..n}
    IN  /\ w.x \in 1..(mark.tags + 1)
        /\ \A i \in 1..mark.tags : mark.tag[i] \in seen <=> i < w.x
        /\ Rises(w.out, seen \ Tag!Numbers(mark))
        /\ Len(w.out) = n - (w.x - 1)
        /\ w = [x |-> w.x, out |-> w.out]

Step(w, m, c) == IF c # m THEN [w EXCEPT !.out = Append(@, m)] ELSE [w EXCEPT !.x = @ + 1]

\* One more message of the list in the walk of a toggle.
LEMMA WalkStep ==
    ASSUME Read, Good(mark), CleanToggle, mark.tags # 0, NEW n \in Nat, n + 1 <= MsgnCount,
           NEW w, Walked(w, n), NEW c, c = mark.tag[w.x]
    PROVE  Walked(Step(w, msgn[n + 1], c), n + 1)
  <1> DEFINE seen(k) == {msgn[j] : j \in 1..k}
             m == msgn[n + 1]
             Old == Tag!Numbers(mark)
  <1>1. /\ MsgnCount \in Nat /\ \A i \in 1..MsgnCount : msgn[i] \in Nat /\ msgn[i] \in Present
        /\ Present = {msgn[i] : i \in 1..MsgnCount}
        /\ \A i, j \in 1..MsgnCount : i < j => msgn[i] < msgn[j]
    BY ReadIs
  <1>2. PICK N \in Nat : /\ N = mark.tags /\ N < Len(mark.tag) /\ N # 0
                         /\ \A i \in 1..N : mark.tag[i] \in Nat
                         /\ \A i, j \in 1..N : i < j => mark.tag[i] < mark.tag[j]
    BY ArrayIs DEF Good, Tag!Ordered
  <1>3. Old = {mark.tag[i] : i \in 1..N} /\ Old \subseteq Present /\ mark.tag[N + 1] \notin Present
    BY <1>2 DEF Tag!Numbers, CleanToggle, MarksPresent
  <1>4. PICK x \in 1..(N + 1) :
            /\ x = w.x
            /\ \A i \in 1..N : mark.tag[i] \in seen(n) <=> i < x
            /\ Rises(w.out, seen(n) \ Old)
            /\ Len(w.out) = n - (x - 1)
            /\ w = [x |-> x, out |-> w.out]
    BY <1>2 DEF Walked
  <1>5. n + 1 \in 1..MsgnCount /\ 1..(n + 1) = 1..n \cup {n + 1} /\ \A j \in 1..n : j \in 1..MsgnCount /\ j < n + 1
    BY <1>1
  <1>6. m \in Present /\ m \in Nat /\ \A q \in seen(n) : q < m
    BY <1>1, <1>5
  <1>7. seen(n + 1) = seen(n) \cup {m}
    BY <1>5
  \* What is not seen yet is not less than the next message.
  <1>8. \A q \in Present \ seen(n) : q \in Nat /\ m <= q
    <2>1. ASSUME NEW q \in Present, q \notin seen(n) PROVE q \in Nat /\ m <= q
      <3>1. PICK j \in 1..MsgnCount : q = msgn[j]
        BY <1>1
      <3>2. j \notin 1..n
        BY <2>1, <3>1
      <3>3. j = n + 1 \/ n + 1 < j
        BY <3>2
      <3> QED BY <1>1, <1>5, <1>6, <3>1, <3>3
    <2> QED BY <2>1
  <1>9. \A i \in 1..N : mark.tag[i] \in Old /\ mark.tag[i] \in Present
    BY <1>3
  <1>10. seen(n) \subseteq Nat
    BY <1>1, <1>5
  <1> HIDE DEF seen, m, Old
  <1>11. CASE c # m
    <2>1. m \notin Old
      <3>1. SUFFICES ASSUME NEW i \in 1..N, m = mark.tag[i] PROVE FALSE
        BY <1>3
      <3>2. m \notin seen(n)
        BY <1>6
      <3>3. ~(i < x) /\ i # x
        BY <1>4, <1>11, <3>1, <3>2
      <3>4. x < i /\ x \in 1..N
        BY <3>3
      <3>5. mark.tag[x] < m
        BY <1>2, <3>1, <3>4
      <3>6. mark.tag[x] \in Present \ seen(n)
        BY <1>4, <1>9, <3>4
      <3>7. m <= mark.tag[x] /\ mark.tag[x] \in Nat
        BY <1>8, <3>6
      <3> QED BY <1>6, <3>5, <3>7
    <2>2. Rises(Append(w.out, m), (seen(n) \ Old) \cup {m})
      BY <1>4, <1>6, AppendRises
    <2>3. (seen(n) \ Old) \cup {m} = seen(n + 1) \ Old
      BY <1>7, <2>1
    <2>4. PICK v : v = [x |-> x, out |-> Append(w.out, m)]
      OBVIOUS
    <2>5. [w EXCEPT !.out = Append(@, m)] = v
      <3>1. PICK o : o = w.out
        OBVIOUS
      <3>2. PICK a : a = Append(o, m)
        OBVIOUS
      <3>3. w = [x |-> x, out |-> o] /\ v = [x |-> x, out |-> a]
        BY <1>4, <2>4, <3>1, <3>2
      <3>4. [w EXCEPT !.out = a] = v
        BY <3>3
      <3> QED BY <3>1, <3>2, <3>4
    <2>6. v.x = x /\ v.out = Append(w.out, m) /\ v = [x |-> v.x, out |-> v.out]
      BY <2>4
    <2>7. Len(v.out) = n + 1 - (x - 1)
      <3>1. w.out \in Seq(Nat)
        BY <1>4 DEF Rises
      <3>2. Len(Append(w.out, m)) = Len(w.out) + 1
        BY <1>6, <3>1
      <3> QED BY <1>4, <2>6, <3>2
    <2>8. \A i \in 1..N : mark.tag[i] \in seen(n + 1) <=> i < x
      BY <1>4, <1>7, <1>9, <2>1
    <2>9. Rises(v.out, seen(n + 1) \ Old)
      BY <2>2, <2>3, <2>6
    <2>10. Walked(v, n + 1)
      <3>1. v.x \in 1..(mark.tags + 1) /\ \A i \in 1..mark.tags : mark.tag[i] \in seen(n + 1) <=> i < v.x
        BY <1>2, <2>6, <2>8
      <3>2. Len(v.out) = n + 1 - (v.x - 1)
        BY <2>6, <2>7
      <3> QED BY <2>6, <2>9, <3>1, <3>2 DEF Walked, seen, Old
    <2> QED BY <1>11, <2>5, <2>10 DEF m, Step
  <1>12. CASE c = m
    <2>1. x \in 1..N /\ mark.tag[x] = m
      <3>1. mark.tag[x] = m
        BY <1>4, <1>12
      <3>2. x # N + 1
        BY <1>3, <1>6, <3>1
      <3> QED BY <3>1, <3>2
    <2>2. m \in Old
      BY <1>9, <2>1
    <2>3. seen(n + 1) \ Old = seen(n) \ Old
      BY <1>7, <2>2
    <2>4. PICK v : v = [x |-> x + 1, out |-> w.out]
      OBVIOUS
    <2>5. [w EXCEPT !.x = @ + 1] = v
      BY <1>4, <2>4
    <2>6. v.x = x + 1 /\ v.out = w.out /\ v = [x |-> v.x, out |-> v.out]
      BY <2>4
    <2>7. Len(v.out) = n + 1 - ((x + 1) - 1)
      BY <1>4, <2>6
    <2>8. \A i \in 1..N : mark.tag[i] \in seen(n + 1) <=> i < x + 1
      <3>1. ASSUME NEW i \in 1..N PROVE mark.tag[i] \in seen(n + 1) <=> i < x + 1
        <4>1. CASE i < x
          BY <1>4, <1>7, <4>1
        <4>2. CASE i = x
          BY <1>7, <2>1, <4>2
        <4>3. CASE i > x
          <5>1. mark.tag[x] < mark.tag[i] /\ mark.tag[i] \in Nat
            BY <1>2, <2>1, <4>3
          <5>2. mark.tag[i] # m /\ mark.tag[i] \notin seen(n)
            BY <1>4, <1>6, <2>1, <4>3, <5>1
          <5> QED BY <1>7, <4>3, <5>2
        <4> QED BY <4>1, <4>2, <4>3
      <3> QED BY <3>1
    <2>9. Rises(v.out, seen(n + 1) \ Old)
      BY <1>4, <2>3, <2>6
    <2>10. v.x \in 1..(N + 1)
      BY <2>1, <2>6
    <2>11. Walked(v, n + 1)
      <3>1. v.x \in 1..(mark.tags + 1) /\ \A i \in 1..mark.tags : mark.tag[i] \in seen(n + 1) <=> i < v.x
        BY <1>2, <2>6, <2>8, <2>10
      <3>2. Len(v.out) = n + 1 - (v.x - 1)
        BY <2>6, <2>7
      <3> QED BY <2>6, <2>9, <3>1, <3>2 DEF Walked, seen, Old
    <2> QED BY <1>12, <2>5, <2>11 DEF m, Step
  <1> QED BY <1>11, <1>12 DEF m

-----------------------------------------------------------------------------
\* The menu, step by step, and the theorems.

\* Toggling marks the messages that are not marked, when it works.
LEMMA ToggleIs ==
    ASSUME Read, Good(mark), CleanToggle, MarkMsgs_Toggle
    PROVE  \E m : /\ MarksBecome(m) /\ Good(m)
                  /\ Tag!Numbers(m) = IF Tag!Numbers(mark) = {} THEN {} ELSE Present \ Tag!Numbers(mark)
  <1> DEFINE fresh == Tag!Resize(Tag!EmptyTag, MsgnCount - mark.count)
             cell(x) == IF x <= Len(mark.tag) THEN mark.tag[x] ELSE junk
             first == [x |-> 1, out |-> <<>>]
             after(w, n) == IF cell(w.x) # msgn[n] THEN [w EXCEPT !.out = Append(@, msgn[n])]
                                                   ELSE [w EXCEPT !.x = @ + 1]
             walk == CHOOSE walk : walk = [n \in 0..MsgnCount |->
                        IF n = 0 THEN [x |-> 1, out |-> <<>>]
                        ELSE IF cell(walk[n - 1].x) # msgn[n]
                             THEN [walk[n - 1] EXCEPT !.out = Append(@, msgn[n])]
                             ELSE [walk[n - 1] EXCEPT !.x = @ + 1]]
             out == walk[MsgnCount].out
             u == [fresh EXCEPT !.tag = [i \in DOMAIN fresh.tag |->
                      IF i <= Len(out) THEN out[i] ELSE fresh.tag[i]]]
  <1>1. (CASE mark.count = 0 -> MarksBecome(Tag!EmptyTag)
           [] mark.count # 0 /\ (mark.count > MsgnCount \/ Len(out) > Len(fresh.tag)) ->
                 crashed' = TRUE /\ UNCHANGED <<msgn, mark, lastread, bookmark, junk>>
           [] OTHER -> MarksBecome(u))
    BY Zenon DEF MarkMsgs_Toggle
  <1>2. PICK N \in Nat : N = mark.tags /\ N = mark.count /\ Tag!Numbers(mark) = {mark.tag[i] : i \in 1..N}
    BY ArrayIs DEF Good, Tag!Numbers
  <1>3. CASE N = 0
    <2>1. MarksBecome(Tag!EmptyTag)
      BY <1>1, <1>2, <1>3
    <2>2. Tag!Numbers(mark) = {}
      BY <1>2, <1>3
    <2> QED BY <2>1, <2>2, EmptyGood
  <1>4. CASE N # 0
    <2>1. /\ MsgnCount \in Nat /\ \A i \in 1..MsgnCount : msgn[i] \in Msgno
          /\ Present = {msgn[i] : i \in 1..MsgnCount} /\ Present \subseteq Msgno
      BY ReadIs DEF Read
    <2>2. N < Len(mark.tag) /\ Len(mark.tag) \in Nat
      BY <1>2, <1>4, ArrayIs DEF Good
    <2>3. \E f : f = [n \in 0..MsgnCount |-> IF n = 0 THEN first ELSE after(f[n - 1], n)]
      <3> DEFINE V == [x : Nat, out : Seq(Msgno)]
                 next == [p \in V \X (1..MsgnCount) |-> after(p[1], p[2])]
      <3>1. first \in V
        OBVIOUS
      <3>2. \A w \in V : \A n \in 1..MsgnCount : after(w, n) \in V
        <4>1. ASSUME NEW w \in V, NEW n \in 1..MsgnCount PROVE after(w, n) \in V
          <5>1. w.x \in Nat /\ w.out \in Seq(Msgno) /\ msgn[n] \in Msgno
            BY <2>1
          <5>2. w.x + 1 \in Nat /\ Append(w.out, msgn[n]) \in Seq(Msgno)
            BY <5>1
          <5>3. [w EXCEPT !.out = Append(@, msgn[n])] \in V /\ [w EXCEPT !.x = @ + 1] \in V
            BY <5>2
          <5> QED BY <5>3
        <4> QED BY <4>1
      <3> HIDE DEF first, after, V
      <3>3. next \in [V \X (1..MsgnCount) -> V] /\ \A w \in V : \A n \in 1..MsgnCount : next[<<w, n>>] = after(w, n)
        BY <3>2
      <3> HIDE DEF next
      <3>4. PICK f \in [0..MsgnCount -> V] : Steps(f, MsgnCount, first, next)
        BY <2>1, <3>1, <3>3, StepsExist
      <3>5. \A n \in 0..MsgnCount : f[n] = IF n = 0 THEN first ELSE next[<<f[n - 1], n>>]
        BY <3>4 DEF Steps
      <3>6. \A n \in 0..MsgnCount : n # 0 => n \in 1..MsgnCount /\ n - 1 \in 0..MsgnCount
        BY <2>1
      <3>7. \A n \in 0..MsgnCount : f[n] = IF n = 0 THEN first ELSE after(f[n - 1], n)
        BY <3>3, <3>5, <3>6
      <3>8. f = [n \in 0..MsgnCount |-> f[n]]
        OBVIOUS
      <3>9. f = [n \in 0..MsgnCount |-> IF n = 0 THEN first ELSE after(f[n - 1], n)]
        BY <3>7, <3>8
      <3> QED BY <3>9
    <2>4. walk = [n \in 0..MsgnCount |-> IF n = 0 THEN first ELSE after(walk[n - 1], n)]
      BY <2>3, Zenon
    <2> HIDE DEF walk
    <2>5. \A n \in 0..MsgnCount : walk[n] = IF n = 0 THEN first ELSE after(walk[n - 1], n)
      BY <2>4, Zenon
    <2> DEFINE Q == {n \in Nat : n <= MsgnCount => Walked(walk[n], n)}
    <2>6. 0 \in Q
      <3>1. walk[0] = first
        <4> HIDE DEF first, after
        <4> QED BY <2>1, <2>5
      <3>2. first.x = 1 /\ first.out = <<>> /\ first = [x |-> first.x, out |-> first.out]
        OBVIOUS
      <3>3. Rises(<<>>, {})
        BY DEF Rises, Range
      <3>4. {msgn[j] : j \in 1..0} = {}
        OBVIOUS
      <3>5. {msgn[j] : j \in 1..0} \ Tag!Numbers(mark) = {}
        BY <3>4
      <3>6. Len(<<>>) = 0 /\ 1 \in 1..(N + 1) /\ \A i \in 1..N : ~(i < 1)
        OBVIOUS
      <3> HIDE DEF first
      <3>7. Walked(first, 0)
        <4>1. first.x \in 1..(mark.tags + 1)
          BY <1>2, <3>2, <3>6
        <4>2. \A i \in 1..mark.tags : mark.tag[i] \in {msgn[j] : j \in 1..0} <=> i < first.x
          <5>1. \A i \in 1..N : mark.tag[i] \notin {msgn[j] : j \in 1..0}
            BY <3>4
          <5> QED BY <1>2, <3>2, <3>6, <5>1
        <4>3. Rises(first.out, {msgn[j] : j \in 1..0} \ Tag!Numbers(mark))
          BY <3>2, <3>3, <3>5
        <4>4. Len(first.out) = 0 - (first.x - 1)
          BY <3>2, <3>6
        <4> QED BY <3>2, <4>1, <4>2, <4>3, <4>4, Zenon DEF Walked
      <3> QED BY <3>1, <3>7
    <2>7. ASSUME NEW n \in Nat, n \in Q PROVE n + 1 \in Q
      <3> SUFFICES ASSUME n + 1 <= MsgnCount PROVE Walked(walk[n + 1], n + 1)
        OBVIOUS
      <3>1. n <= MsgnCount /\ n + 1 \in 0..MsgnCount /\ n + 1 # 0 /\ n + 1 - 1 = n
        BY <2>1
      <3>2. Walked(walk[n], n)
        BY <2>7, <3>1
      <3>3. walk[n + 1] = after(walk[n], n + 1)
        <4> HIDE DEF first, after
        <4>1. walk[n + 1] = IF n + 1 = 0 THEN first ELSE after(walk[n + 1 - 1], n + 1)
          BY <2>5, <3>1
        <4> QED BY <3>1, <4>1
      <3>4. PICK w : w = walk[n]
        OBVIOUS
      <3>5. w.x \in 1..(N + 1)
        BY <1>2, <3>2, <3>4 DEF Walked
      <3>6. cell(w.x) = mark.tag[w.x]
        BY <2>2, <3>5
      <3>7. PICK c : c = mark.tag[w.x]
        OBVIOUS
      <3>8. Walked(Step(w, msgn[n + 1], c), n + 1)
        <4>1. Walked(w, n) /\ mark.tags # 0
          BY <1>2, <1>4, <3>2, <3>4
        <4> QED BY <3>7, <4>1, WalkStep
      <3>9. after(w, n + 1) = Step(w, msgn[n + 1], c)
        BY <3>6, <3>7, Zenon DEF Step
      <3> HIDE DEF after
      <3> QED BY <3>3, <3>4, <3>8, <3>9
    <2>8. MsgnCount \in Q
      <3> HIDE DEF Q
      <3> QED BY <2>1, <2>6, <2>7, Induction
    <2>9. PICK w : w = walk[MsgnCount]
      OBVIOUS
    <2>10. Walked(w, MsgnCount)
      BY <2>1, <2>8, <2>9
    \* Every old mark was met.
    <2>11. w.x = N + 1
      <3>1. w.x \in 1..(N + 1) /\ \A i \in 1..N : mark.tag[i] \in Present <=> i < w.x
        BY <1>2, <2>1, <2>10 DEF Walked
      <3>2. mark.tag[N] \in Present /\ N \in 1..N
        BY <1>2, <1>4 DEF CleanToggle, MarksPresent
      <3>3. N < w.x
        BY <3>1, <3>2
      <3> QED BY <3>1, <3>3
    <2>12. PICK o : o = out /\ Rises(o, Present \ Tag!Numbers(mark)) /\ Len(o) = MsgnCount - N /\ Len(o) \in Nat
      <3>1. Rises(w.out, Present \ Tag!Numbers(mark)) /\ Len(w.out) = MsgnCount - (w.x - 1)
        BY <2>1, <2>10 DEF Walked
      <3>2. w.x - 1 = N
        BY <2>11
      <3>3. Len(w.out) \in Nat
        BY <3>1 DEF Rises
      <3> QED BY <2>9, <3>1, <3>2, <3>3
    <2> HIDE DEF out
    <2>13. /\ fresh \in Tables /\ fresh.tags = Len(o) /\ fresh.count = Len(o) /\ Len(o) < Len(fresh.tag)
      <3>1. Tag!EmptyTag \in Tables /\ junk \in Junk
        BY EmptyGood DEF Good, Array, Read
      <3>2. MsgnCount - mark.count = Len(o)
        BY <1>2, <2>12
      <3> HIDE DEF fresh
      <3>3. fresh = Tag!Resize(Tag!EmptyTag, Len(o))
        BY <3>2 DEF fresh
      <3> QED BY <2>12, <3>1, <3>3, ResizeIs
    <2> HIDE DEF fresh
    <2>14. ~(mark.count > MsgnCount \/ Len(out) > Len(fresh.tag))
      <3>1. Len(fresh.tag) \in Nat
        BY <2>13, TableIs
      <3>2. N <= MsgnCount
        BY <2>1, <2>12
      <3> QED BY <1>2, <2>1, <2>12, <2>13, <3>1, <3>2
    <2>15. MarksBecome(u)
      <3> HIDE DEF u
      <3> QED BY <1>1, <1>2, <1>4, <2>14
    <2>16. Good(u) /\ Tag!Numbers(u) = Present \ Tag!Numbers(mark)
      <3>1. Present \ Tag!Numbers(mark) \subseteq Msgno
        BY <2>1
      <3>2. u = Filled(fresh, o)
        BY <2>12, Zenon DEF Filled
      <3> HIDE DEF u
      <3> QED BY <2>12, <2>13, <3>1, <3>2, FillIs
    <2>17. Tag!Numbers(mark) # {}
      <3>1. N \in 1..N
        BY <1>4
      <3>2. mark.tag[N] \in Tag!Numbers(mark)
        BY <1>2, <3>1
      <3> QED BY <3>2
    <2> HIDE DEF u
    <2> QED BY <2>15, <2>16, <2>17
  <1> QED BY <1>3, <1>4

\* What stays, with what the marks become.
Held == Read /\ Good(mark) /\ crashed \in BOOLEAN

\* Marks kept in order may be replaced by others.
LEMMA BecomeIs ==
    ASSUME Held, NEW m, MarksBecome(m), Good(m)
    PROVE  Held' /\ Present' = Present /\ Tag!Numbers(mark)' = Tag!Numbers(m)
  <1>1. /\ mark' = m /\ msgn' = msgn /\ lastread' = lastread /\ bookmark' = bookmark
        /\ junk' = junk /\ crashed' = crashed
    BY DEF MarksBecome
  <1>2. Present' = Present /\ MsgnCount' = MsgnCount
    BY <1>1 DEF Present, MsgnCount
  <1>3. Read'
    BY <1>1, <1>2 DEF Held, Read, Rises
  <1>4. Good(mark)'
    BY <1>1 DEF Good, Array, Tag!Ordered, Tag!EmptyTag
  <1>5. Tag!Numbers(mark)' = Tag!Numbers(m)
    BY <1>1 DEF Tag!Numbers
  <1> QED BY <1>1, <1>2, <1>3, <1>4, <1>5 DEF Held

\* What leaves the list and the marks alone leaves the sets they stand for.
LEMMA BrowseIs ==
    ASSUME Held, mark' = mark, msgn' = msgn, junk' = junk, crashed' \in BOOLEAN,
           lastread' \in 1..MsgnCount, bookmark' \in Msgno \cup {0}
    PROVE  Held' /\ Present' = Present /\ Tag!Numbers(mark)' = Tag!Numbers(mark)
  <1>2. Present' = Present /\ MsgnCount' = MsgnCount
    BY DEF Present, MsgnCount
  <1>3. Read'
    BY <1>2 DEF Held, Read, Rises
  <1>4. Good(mark)'
    BY DEF Held, Good, Array, Tag!Ordered, Tag!EmptyTag
  <1>5. Tag!Numbers(mark)' = Tag!Numbers(mark)
    BY DEF Tag!Numbers
  <1> QED BY <1>2, <1>3, <1>4, <1>5 DEF Held

\* An area is read in a state in which Held is so, and nothing is marked.
LEMMA HeldInit == ASSUME MarksInit PROVE Held /\ MarkedSet!Init
  <1>1. PICK S \in SUBSET Msgno \ {{}} :
            /\ msgn = InOrder(S) /\ mark = Tag!EmptyTag /\ lastread \in 1..Cardinality(S)
            /\ bookmark \in S \cup {0} /\ junk \in Junk /\ crashed = FALSE
    BY DEF MarksInit
  <1>2. PICK b \in Nat : Msgno \subseteq 1..b
    BY MsgnoNat
  <1>3. Rises(msgn, S) /\ MsgnCount = Cardinality(S)
    <2>1. S \subseteq 1..b
      BY <1>2
    <2> QED BY <1>1, <2>1, InOrderRises DEF MsgnCount
  <1>4. Present = S
    BY <1>3 DEF Present, Rises, Range
  <1>5. Read
    BY <1>1, <1>3, <1>4 DEF Read
  <1>6. Good(mark) /\ Tag!Numbers(mark) = {}
    BY <1>1, EmptyGood
  <1> QED BY <1>1, <1>5, <1>6 DEF Held, MarkedSet!Init

\* Every step keeps what stays and does to the numbers what MarkSet says.
LEMMA HeldStep ==
    ASSUME Held, MarkMsgs, item' = "toggle" => CleanToggle
    PROVE  Held' /\ MarkedSet!Next
  <1> DEFINE Old == Tag!Numbers(mark)
             Does == Held' /\ MarkedSet!Next
  <1>1. /\ Read /\ Good(mark) /\ crashed \in BOOLEAN /\ junk \in Junk
        /\ lastread \in 1..MsgnCount /\ bookmark \in Msgno \cup {0}
    BY DEF Held, Read
  <1>2. /\ msgn \in Seq(Msgno) /\ MsgnCount \in Nat /\ Present = {msgn[i] : i \in 1..MsgnCount}
        /\ \A i \in 1..MsgnCount : msgn[i] \in Nat /\ msgn[i] \in Present /\ msgn[i] \in Msgno /\ msgn[i] # 0
        /\ \A i, j \in 1..MsgnCount : i < j => msgn[i] < msgn[j]
        /\ lastread \in Nat /\ lastread <= MsgnCount /\ Present \subseteq Msgno
        /\ current = msgn[lastread] /\ current \in Present /\ current \in Msgno /\ current \in Nat
    BY <1>1, ReadIs DEF Read
  <1>3. ASSUME Used("read"), NEW reln \in 1..MsgnCount, Goto(reln) PROVE Does
    <2>1. Held' /\ Present' = Present /\ Old' = Old
      BY <1>1, <1>3, BrowseIs DEF Goto
    <2> QED BY <1>3, <2>1 DEF Used, MarkedSet!Next, MarkedSet!Browse
  <1>4. CASE Used("read") /\ ToggleBookMark
    <2>1. bookmark' \in Msgno \cup {0}
      BY <1>2, <1>4 DEF ToggleBookMark
    <2>2. Held' /\ Present' = Present /\ Old' = Old
      BY <1>1, <1>4, <2>1, BrowseIs DEF ToggleBookMark
    <2> QED BY <1>4, <2>2 DEF Used, MarkedSet!Next, MarkedSet!Browse
  <1>5. CASE Used("one") /\ ToggleOneMark
    <2>1. PICK tmp : tmp = Tag!Find(mark, current)
      OBVIOUS
    <2>2. /\ tmp \in 0..mark.tags /\ (tmp # 0 => mark.tag[tmp] = current)
          /\ \A k \in 1..mark.tags : mark.tag[k] = current => tmp = k
      BY <1>1, <1>2, <2>1, GoodIs, ToRelnIs
    <2>3. mark.tags \in Nat
      BY <1>1, ArrayIs DEF Good
    <2>4. MarksBecome(IF tmp # 0 THEN Tag!DelReln(mark, tmp) ELSE Tag!Add(mark, current))
      BY <1>5, <2>1 DEF ToggleOneMark
    <2>5. CASE tmp # 0
      <3>1. tmp \in 1..mark.tags /\ mark.tag[tmp] = current /\ current \in Old
        BY <2>2, <2>3, <2>5 DEF Tag!Numbers
      <3>2. PICK m : m = Tag!DelReln(mark, tmp) /\ Good(m) /\ Tag!Numbers(m) = Old \ {current}
        BY <1>1, <3>1, DelIs
      <3>3. MarksBecome(m)
        BY <2>4, <2>5, <3>2
      <3>4. Held' /\ Present' = Present /\ Old' = Old \ {current}
        BY <3>2, <3>3, BecomeIs
      <3> HIDE DEF Old
      <3>5. MarkedSet!ToggleOne
        BY <3>1, <3>4 DEF MarkedSet!ToggleOne, Old
      <3> QED BY <1>5, <3>4, <3>5 DEF Used, MarkedSet!Next, Old
    <2>6. CASE tmp = 0
      <3>1. current \notin Old
        BY <2>2, <2>3, <2>6 DEF Tag!Numbers
      <3>2. PICK m : m = Tag!Add(mark, current) /\ Good(m) /\ Tag!Numbers(m) = Old \cup {current}
        BY <1>1, <1>2, AddIs
      <3>3. MarksBecome(m)
        BY <2>4, <2>6, <3>2
      <3>4. Held' /\ Present' = Present /\ Old' = Old \cup {current}
        BY <3>2, <3>3, BecomeIs
      <3>5. MarkedSet!ToggleOne
        BY <3>1, <3>4 DEF MarkedSet!ToggleOne
      <3> QED BY <1>5, <3>4, <3>5 DEF Used, MarkedSet!Next
    <2> QED BY <2>5, <2>6
  <1>6. CASE Used("unmark") /\ MarkMsgs_Unmark
    <2>1. Tag!ResetAll(mark) = Tag!EmptyTag
      BY DEF Tag!ResetAll
    <2>2. Held' /\ Present' = Present /\ Old' = {}
      BY <1>6, <2>1, EmptyGood, BecomeIs DEF MarkMsgs_Unmark
    <2>3. MarkedSet!Unmark
      BY <2>2 DEF MarkedSet!Unmark
    <2> QED BY <1>6, <2>2, <2>3 DEF Used, MarkedSet!Next
  <1>7. CASE Used("toggle") /\ MarkMsgs_Toggle
    <2>0. CleanToggle
      BY <1>7 DEF Used
    <2>1. PICK m : /\ MarksBecome(m) /\ Good(m)
                   /\ Tag!Numbers(m) = IF Old = {} THEN {} ELSE Present \ Old
      BY <1>1, <1>7, <2>0, ToggleIs
    <2>2. Held' /\ Present' = Present /\ Old' = IF Old = {} THEN {} ELSE Present \ Old
      BY <2>1, BecomeIs
    <2>3. MarkedSet!Toggle
      BY <2>2 DEF MarkedSet!Toggle
    <2> QED BY <1>7, <2>2, <2>3 DEF Used, MarkedSet!Next
  <1>8. CASE Used("all") /\ MarkMsgs_All
    <2> DEFINE r == Tag!Resize(mark, MsgnCount)
               u == Filled(r, msgn)
    <2>1. MarksBecome(u)
      BY <1>8 DEF MarkMsgs_All, MsgnCount, Filled
    <2>2. r \in Tables /\ r.tags = Len(msgn) /\ r.count = Len(msgn) /\ Len(msgn) < Len(r.tag)
      <3>1. mark \in Tables /\ MsgnCount = Len(msgn)
        BY <1>1 DEF Good, Array, MsgnCount
      <3> QED BY <1>1, <1>2, <3>1, ResizeIs
    <2>3. Rises(msgn, Present) /\ Present \subseteq Msgno
      BY <1>1 DEF Read
    <2> HIDE DEF r
    <2>4. Good(u) /\ Tag!Numbers(u) = Present
      BY <2>2, <2>3, FillIs
    <2> HIDE DEF u
    <2>5. Held' /\ Present' = Present /\ Old' = Present
      BY <2>1, <2>4, BecomeIs
    <2>6. MarkedSet!MarkAll
      BY <2>5 DEF MarkedSet!MarkAll
    <2> QED BY <1>8, <2>5, <2>6 DEF Used, MarkedSet!Next
  \* What is between two places is added.
  <1>9. ASSUME NEW a \in Nat \ {0}, NEW b \in Nat, b <= MsgnCount,
               MarksBecome(Tag!ElimDups(Tag!Sort(Extended(SubSeq(msgn, a, b)))))
        PROVE  Held' /\ Present' = Present /\ Old' = Old \cup {msgn[i] : i \in a..b}
    <2>1. PICK s : s = SubSeq(msgn, a, b) /\ s \in Seq(Msgno) /\ Range(s) = {msgn[i] : i \in a..b}
      BY <1>1, <1>9, PartIs
    <2>2. PICK m : /\ m = Tag!ElimDups(Tag!Sort(Extended(s)))
                   /\ Good(m) /\ Tag!Numbers(m) = Old \cup {msgn[i] : i \in a..b}
      BY <1>1, <2>1, MergeIs
    <2>3. MarksBecome(m)
      BY <1>9, <2>1, <2>2
    <2> QED BY <2>2, <2>3, BecomeIs
  \* Places and the numbers there are in the same order.
  <1>10. \A i, j \in 1..MsgnCount : /\ i < j <=> msgn[i] < msgn[j]
                                    /\ i <= j <=> msgn[i] <= msgn[j]
    <2>1. ASSUME NEW i \in 1..MsgnCount, NEW j \in 1..MsgnCount
          PROVE  (i < j <=> msgn[i] < msgn[j]) /\ (i <= j <=> msgn[i] <= msgn[j])
      <3>1. msgn[i] \in Nat /\ msgn[j] \in Nat /\ (i < j => msgn[i] < msgn[j]) /\ (j < i => msgn[j] < msgn[i])
        BY <1>2
      <3>2. i < j \/ i = j \/ j < i
        OBVIOUS
      <3> QED BY <3>1, <3>2
    <2> QED BY <2>1
  <1>11. CASE Used("new") /\ MarkMsgs_New
    <2>1. lastread + 1 \in Nat \ {0} /\ MsgnCount <= MsgnCount
      BY <1>2
    <2>2. Held' /\ Present' = Present /\ Old' = Old \cup {msgn[i] : i \in (lastread + 1)..MsgnCount}
      BY <1>2, <1>9, <1>11, <2>1 DEF MarkMsgs_New
    <2>3. {msgn[i] : i \in (lastread + 1)..MsgnCount} = {m \in Present : m > current}
      <3>1. ASSUME NEW i \in 1..MsgnCount PROVE i \in (lastread + 1)..MsgnCount <=> msgn[i] > current
        <4>1. i \in (lastread + 1)..MsgnCount <=> lastread < i
          BY <1>2
        <4>2. lastread < i <=> current < msgn[i]
          BY <1>1, <1>2, <1>10
        <4> QED BY <1>2, <4>1, <4>2
      <3>2. (lastread + 1)..MsgnCount \subseteq 1..MsgnCount
        BY <1>2
      <3> QED BY <1>2, <3>1, <3>2
    <2>4. MarkedSet!New
      BY <2>2, <2>3 DEF MarkedSet!New
    <2> QED BY <1>11, <2>2, <2>4 DEF Used, MarkedSet!Next
  <1>12. CASE Used("old") /\ MarkMsgs_Old
    <2>1. lastread - 1 \in Nat /\ lastread - 1 <= MsgnCount /\ 1 \in Nat \ {0}
      BY <1>1, <1>2
    <2>2. Held' /\ Present' = Present /\ Old' = Old \cup {msgn[i] : i \in 1..(lastread - 1)}
      BY <1>9, <1>12, <2>1 DEF MarkMsgs_Old
    <2>3. {msgn[i] : i \in 1..(lastread - 1)} = {m \in Present : m < current}
      <3>1. \A i \in 1..MsgnCount : i \in 1..(lastread - 1) <=> msgn[i] < current
        BY <1>1, <1>2, <1>10
      <3>2. 1..(lastread - 1) \subseteq 1..MsgnCount
        BY <1>2
      <3> QED BY <1>2, <3>1, <3>2
    <2>4. MarkedSet!Old
      BY <2>2, <2>3 DEF MarkedSet!Old
    <2> QED BY <1>12, <2>2, <2>4 DEF Used, MarkedSet!Next
  <1>13. CASE Used("range") /\ MarkMsgs_Range
    <2>1. PICK start : start = Tag!Find(MsgnTag, bookmark)
      OBVIOUS
    <2>2. /\ start \in 0..MsgnCount /\ (start # 0 => msgn[start] = bookmark)
          /\ \A k \in 1..MsgnCount : msgn[k] = bookmark => start = k
      <3>0. PICK t : t = MsgnTag
        OBVIOUS
      <3>1. t.tag = msgn /\ t.tags = MsgnCount
        BY <3>0 DEF MsgnTag
      <3>2. Rising(t.tag, t.tags) /\ (t.tags # 0 => t.tag # <<>>) /\ \A i \in 1..t.tags : t.tag[i] # 0
        <4>1. MsgnCount # 0 => msgn # <<>>
          BY <1>2 DEF MsgnCount
        <4> QED BY <1>2, <3>1, <4>1 DEF Rising
      <3>3. bookmark \in Nat
        BY <1>1, MsgnoNat
      <3>4. /\ Tag!Find(t, bookmark) \in 0..t.tags
            /\ Tag!Find(t, bookmark) # 0 => t.tag[Tag!Find(t, bookmark)] = bookmark
            /\ \A k \in 1..t.tags : t.tag[k] = bookmark => Tag!Find(t, bookmark) = k
        BY <3>2, <3>3, ToRelnIs
      <3> QED BY <2>1, <3>0, <3>1, <3>4
    <2>3. CASE start = 0
      <3>1. crashed' = TRUE /\ UNCHANGED <<msgn, mark, lastread, bookmark, junk>>
        BY <1>13, <2>1, <2>3 DEF MarkMsgs_Range
      <3>2. Held' /\ Present' = Present /\ Old' = Old
        BY <1>1, <3>1, BrowseIs
      <3>3. bookmark \notin Present
        BY <1>2, <2>2, <2>3
      <3> QED BY <1>13, <3>2, <3>3 DEF Used, MarkedSet!Next, MarkedSet!Span
    <2>4. CASE start # 0
      <3>1. PICK low, high : /\ low = (IF start < lastread THEN start ELSE lastread)
                             /\ high = (IF start < lastread THEN lastread ELSE start)
        OBVIOUS
      <3>2. /\ low \in 1..MsgnCount /\ high \in 1..MsgnCount /\ start \in 1..MsgnCount
            /\ \A i \in 1..MsgnCount : i \in low..high <=> (start <= i /\ i <= lastread) \/ (lastread <= i /\ i <= start)
        BY <1>1, <1>2, <2>2, <2>4, <3>1
      <3>3. MarksBecome(Tag!ElimDups(Tag!Sort(Extended(SubSeq(msgn, low, high)))))
        BY <1>13, <2>1, <2>4, <3>1 DEF MarkMsgs_Range
      <3>4. low \in Nat \ {0} /\ high \in Nat /\ high <= MsgnCount
        BY <1>2, <3>2
      <3>5. Held' /\ Present' = Present /\ Old' = Old \cup {msgn[i] : i \in low..high}
        BY <1>9, <3>3, <3>4
      <3>6. bookmark \in Present /\ bookmark = msgn[start]
        BY <1>2, <2>2, <2>4, <3>2
      <3>7. {msgn[i] : i \in low..high} = MarkedSet!Between(bookmark, current)
        <4>1. \A i \in 1..MsgnCount : i \in low..high <=> \/ bookmark <= msgn[i] /\ msgn[i] <= current
                                                          \/ current <= msgn[i] /\ msgn[i] <= bookmark
          BY <1>1, <1>2, <1>10, <3>2, <3>6
        <4>2. low..high \subseteq 1..MsgnCount
          BY <1>2, <3>2
        <4> QED BY <1>2, <4>1, <4>2 DEF MarkedSet!Between
      <3>8. MarkedSet!Span
        BY <3>5, <3>6, <3>7 DEF MarkedSet!Span
      <3> QED BY <1>13, <3>5, <3>8 DEF Used, MarkedSet!Next
    <2> QED BY <2>3, <2>4
  <1>14. ASSUME NEW text \in Texts, item' = "text" /\ sought' = text, MarkMsgs_Txt(text) PROVE Does
    <2>1. PICK walked \in {lastread..n : n \in 0..MsgnCount} \cup {n..lastread : n \in 1..MsgnCount} :
              MarksBecome(Added(text \cap {msgn[i] : i \in walked}))
      BY <1>14 DEF MarkMsgs_Txt
    <2>2. PICK found : found = {msgn[i] : i \in walked}
      OBVIOUS
    <2>3. found = {} \/ \E end \in Present : found = MarkedSet!Between(current, end)
      <3>1. PICK n \in 0..MsgnCount : \/ walked = lastread..n
                                      \/ n # 0 /\ walked = n..lastread
        <4>1. 1..MsgnCount \subseteq 0..MsgnCount /\ 0 \notin 1..MsgnCount
          BY <1>2
        <4> QED BY <2>1, <4>1
      <3>2. CASE walked = {}
        BY <2>2, <3>2
      <3>3. CASE walked # {}
        <4>1. n \in 1..MsgnCount /\ walked \subseteq 1..MsgnCount
          BY <1>1, <1>2, <3>1, <3>3
        <4>2. \A i \in 1..MsgnCount : i \in walked <=> \/ lastread <= i /\ i <= n
                                                       \/ n <= i /\ i <= lastread
          <5>1. lastread \in Nat /\ n \in Nat
            BY <1>2, <4>1
          <5>2. CASE walked = lastread..n
            <6>1. lastread <= n
              BY <3>3, <5>1, <5>2
            <6>2. ASSUME NEW i \in 1..MsgnCount
                  PROVE  i \in lastread..n <=> \/ lastread <= i /\ i <= n
                                               \/ n <= i /\ i <= lastread
              BY <5>1, <6>1
            <6> QED BY <5>2, <6>2
          <5>3. CASE walked = n..lastread
            <6>1. n <= lastread
              BY <3>3, <5>1, <5>3
            <6> QED BY <5>1, <5>3, <6>1
          <5> QED BY <3>1, <5>2, <5>3
        <4>3. \A i \in 1..MsgnCount : i \in walked <=> \/ current <= msgn[i] /\ msgn[i] <= msgn[n]
                                                       \/ msgn[n] <= msgn[i] /\ msgn[i] <= current
          BY <1>1, <1>2, <1>10, <4>1, <4>2
        <4>4. found = MarkedSet!Between(current, msgn[n])
          <5>1. {msgn[i] : i \in walked} = MarkedSet!Between(current, msgn[n])
            <6>1. ASSUME NEW m \in MarkedSet!Between(current, msgn[n])
                  PROVE  \E i \in walked : m = msgn[i]
              <7>1. PICK i \in 1..MsgnCount : m = msgn[i]
                BY <1>2, <6>1 DEF MarkedSet!Between
              <7> QED BY <4>3, <6>1, <7>1 DEF MarkedSet!Between
            <6>2. ASSUME NEW i \in walked PROVE msgn[i] \in MarkedSet!Between(current, msgn[n])
              <7>1. i \in 1..MsgnCount /\ msgn[i] \in Present
                BY <1>2, <4>1
              <7> QED BY <4>3, <7>1 DEF MarkedSet!Between
            <6> QED BY <6>1, <6>2
          <5> QED BY <2>2, <5>1
        <4> QED BY <1>2, <4>1, <4>4
      <3> QED BY <3>2, <3>3
    <2>4. text \cap found \subseteq Msgno
      <3>1. found \subseteq Present
        BY <2>3 DEF MarkedSet!Between
      <3> QED BY <1>2, <3>1
    <2>5. PICK m : m = Added(text \cap found) /\ Good(m) /\ Tag!Numbers(m) = Old \cup (text \cap found)
      BY <1>1, <2>4, AddedIs
    <2>6. MarksBecome(m)
      BY <2>1, <2>2, <2>5
    <2>7. Held' /\ Present' = Present /\ Old' = Old \cup (sought' \cap found)
      BY <1>14, <2>5, <2>6, BecomeIs
    <2> HIDE DEF Old
    <2>8. MarkedSet!Text
      BY <2>3, <2>7 DEF MarkedSet!Text, Old
    <2> QED BY <1>14, <2>7, <2>8 DEF MarkedSet!Next
  <1>15. CASE Used("thread") /\ MarkMsgs_Thread
    <2>1. PICK S : /\ S = ThreadNumbers /\ S \subseteq Msgno
                   /\ S = MarkedSet!Lineage \cup MarkedSet!Answers
      BY <1>1, ThreadIs
    <2>2. PICK m : m = Added(S) /\ Good(m) /\ Tag!Numbers(m) = Old \cup S
      BY <1>1, <2>1, AddedIs
    <2>3. MarksBecome(m)
      BY <1>15, <2>1, <2>2 DEF MarkMsgs_Thread
    <2>4. Held' /\ Present' = Present /\ Old' = Old \cup S
      BY <2>2, <2>3, BecomeIs
    <2>5. MarkedSet!Thread
      BY <2>1, <2>4 DEF MarkedSet!Thread
    <2> QED BY <1>15, <2>4, <2>5 DEF Used, MarkedSet!Next
  <1> QED BY <1>3, <1>4, <1>5, <1>6, <1>7, <1>8, <1>11, <1>12, <1>13, <1>14, <1>15 DEF MarkMsgs

\* Standing still keeps Held.
LEMMA HeldStutter ==
    ASSUME Held, UNCHANGED MarksVars
    PROVE  Held' /\ UNCHANGED <<Present, Tag!Numbers(mark), item, sought>>
  BY BrowseIs DEF MarksVars, Held, Read

\* Held is so all the time.
LEMMA AlwaysHeld == CleanSpec => []Held
  <1>1. MarksInit => Held
    BY HeldInit
  <1>2. Held /\ [MarkMsgs /\ (item' = "toggle" => CleanToggle)]_MarksVars => Held'
    BY HeldStep, HeldStutter
  <1> QED BY <1>1, <1>2, PTL DEF CleanSpec

\* Whatever is marked, by hand or from the menu, the array's two counts agree and
\* its marks are in its cells, the message on screen is one of the list, marks
\* and bookmark are numbers of messages, and what is used is an item there is.
THEOREM MarksTyped == CleanSpec => []MarksTypeOK
  <1> DEFINE Items == {"none", "read", "one", "unmark", "toggle", "all", "new", "old", "range",
                       "text", "thread"}
             Asked == item \in Items /\ sought \in Texts \cup {{}}
  <1>1. Held /\ Asked => MarksTypeOK
    BY ArrayIs DEF Held, Read, Good, MarksTypeOK
  <1>2. MarksInit => Asked
    BY DEF MarksInit
  <1>3. Asked /\ [MarkMsgs /\ (item' = "toggle" => CleanToggle)]_MarksVars => Asked'
    <2>1. ASSUME MarkMsgs PROVE Asked'
      <3>1. PICK key \in Items, text \in Texts \cup {{}} : item' = key /\ sought' = text
        BY <2>1 DEF MarkMsgs, Used
      <3> QED BY <3>1
    <2>2. ASSUME UNCHANGED MarksVars, Asked PROVE Asked'
      BY <2>2 DEF MarksVars
    <2> QED BY <2>1, <2>2
  <1> HIDE DEF Asked
  <1>4. CleanSpec => []Asked
    BY <1>2, <1>3, PTL DEF CleanSpec
  <1> QED BY <1>1, <1>4, AlwaysHeld, PTL

\* The marks are in ascending order without repetition after every action of the
\* marking menu and of the toggle: Find bisects them, and the walks of the reader
\* and of MarkMsgs_Toggle take them to be so (gutltag.cpp, gemrks.cpp).
THEOREM MarksKeptOrdered == CleanSpec => []MarksOrdered
  <1>1. Held => MarksOrdered
    BY DEF Held, Good, MarksOrdered
  <1> QED BY <1>1, AlwaysHeld, PTL

\* The array implements a set of marked messages, item by item of the menu: what
\* the item used does to the cells (bisect, move, resize, sort, remove
\* repetitions, walk) is what is promised of that item, of the one message, all,
\* the new, the old, the span, those with the text as far as it was searched for,
\* or the thread as the reply links give it; and of the others when the marks are
\* toggled with only messages of the area marked and no number of one in the cell
\* after the last mark.
THEOREM MarksImplement == CleanSpec => ImplementsMarkSet
  <1>1. MarksInit => MarkedSet!Init
    BY HeldInit
  <1>2. Held /\ [MarkMsgs /\ (item' = "toggle" => CleanToggle)]_MarksVars
            => [MarkedSet!Next]_<<Present, Tag!Numbers(mark), item, sought>>
    BY HeldStep, HeldStutter
  <1> QED BY <1>1, <1>2, AlwaysHeld, PTL DEF CleanSpec, ImplementsMarkSet, MarkedSet!Spec
=============================================================================

-------------------------------- MODULE Marks --------------------------------
(***************************************************************************)
(* golded3/gemrks.cpp with ToggleMark and ToggleBookMark of geread2.cpp:   *)
(* the marks of the area being read.  AA->Mark is the GTag array, with its *)
(* cells, because MarkMsgs_Toggle works on the cells.  AA->Msgn does not   *)
(* change while the marking menu is up, so it is chosen once.              *)
(*                                                                         *)
(* A read or a write outside an array ends the run: crashed becomes TRUE   *)
(* and no action is enabled any more.                                      *)
(***************************************************************************)
EXTENDS ReaderPlace, Integers, Sequences, FiniteSets, Listing

CONSTANTS Msgno,        \* the message numbers there are, positive integers
          ReplyTo,      \* link.to() of a message, 0 if none
          Replies,      \* link.first() and link.list(i) of a message, as a set
          Texts,        \* what the texts searched for are in, sets of messages
          Granularity,
          Junk          \* what a cell of fresh memory may hold

ASSUME GranularityAssumption == Granularity \in Nat \ {0}
ASSUME MsgnoAssumption == Msgno \subseteq Nat \ {0} /\ IsFiniteSet(Msgno)
\* A message's replies come after it, so the thread walks end.
ASSUME LinkAssumption ==
    \A m \in Msgno : /\ ReplyTo[m] \in Msgno \cup {0} /\ ReplyTo[m] < m
                     /\ \A r \in Replies[m] : r \in Msgno /\ r > m

VARIABLES msgn,        \* AA->Msgn, the live part
          mark,        \* AA->Mark
          junk,        \* what fresh memory holds in this run
          crashed,
          item,        \* the item of the menu, or the key, just used
          sought       \* what the text searched for is in, if it was one

MarksVars == <<msgn, mark, lastread, bookmark, junk, crashed, item, sought>>

Tag == INSTANCE GTag WITH Undef <- junk

Present   == {msgn[i] : i \in DOMAIN msgn}
MsgnCount == Len(msgn)
current   == msgn[lastread]
\* AA->Msgn as an array, for the searches made in it.
MsgnTag == [tag |-> msgn, tags |-> MsgnCount, count |-> MsgnCount]

MarksInit ==
    \E S \in SUBSET Msgno \ {{}} :
        /\ msgn = InOrder(S)
        /\ mark = Tag!EmptyTag
        /\ lastread \in 1..Cardinality(S)
        /\ bookmark \in S \cup {0}
        /\ junk \in Junk
        /\ crashed = FALSE
        /\ item = "none" /\ sought = {}

Goto(reln) ==
    /\ lastread' = reln
    /\ UNCHANGED <<msgn, mark, bookmark, junk, crashed>>

ToggleBookMark ==
    /\ bookmark' = IF bookmark = current THEN 0 ELSE current
    /\ UNCHANGED <<msgn, mark, lastread, junk, crashed>>

MarksBecome(m) ==
    /\ mark' = m
    /\ UNCHANGED <<msgn, lastread, bookmark, junk, crashed>>

ToggleOneMark ==
    LET tmp == Tag!Find(mark, current)
    IN  MarksBecome(IF tmp # 0 THEN Tag!DelReln(mark, tmp)
                               ELSE Tag!Add(mark, current))

MarkMsgs_Unmark == MarksBecome(Tag!ResetAll(mark))

\* Resize, then write s into the new cells.
Extended(s) ==
    LET r == Tag!Resize(mark, mark.count + Len(s))
    IN  [r EXCEPT !.tag = [i \in DOMAIN r.tag |->
            IF i \in (mark.count + 1)..(mark.count + Len(s))
            THEN s[i - mark.count] ELSE r.tag[i]]]

MarkMsgs_All ==
    LET r == Tag!Resize(mark, MsgnCount)
    IN  MarksBecome([r EXCEPT !.tag = [i \in DOMAIN r.tag |->
            IF i <= MsgnCount THEN msgn[i] ELSE r.tag[i]]])

MarkMsgs_New ==
    MarksBecome(Tag!ElimDups(Tag!Sort(Extended(SubSeq(msgn, lastread + 1, MsgnCount)))))

\* Mutant: the message on screen counts as old.
MarkMsgs_Old_WithCurrent ==
    MarksBecome(Tag!ElimDups(Tag!Sort(Extended(SubSeq(msgn, 1, lastread)))))

MarkMsgs_Old ==
    MarksBecome(Tag!ElimDups(Tag!Sort(Extended(SubSeq(msgn, 1, lastread - 1)))))

\* With no bookmark, or one whose message is gone, the loop starts at
\* position 0 and reads Msgn[-1].
MarkMsgs_Range ==
    LET start == Tag!Find(MsgnTag, bookmark)
        low   == IF start < lastread THEN start ELSE lastread
        high  == IF start < lastread THEN lastread ELSE start
    IN  IF start = 0
        THEN /\ crashed' = TRUE
             /\ UNCHANGED <<msgn, mark, lastread, bookmark, junk>>
        ELSE MarksBecome(Tag!ElimDups(Tag!Sort(Extended(SubSeq(msgn, low, high)))))

\* Numbers are added to the marks, one after another.
Added(numbers) ==
    LET new == InOrder(numbers)
        add[k \in 0..Len(new)] == IF k = 0 THEN mark ELSE Tag!Add(add[k - 1], new[k])
    IN  add[Len(new)]

\* The search from the current message on, or back from it, up to an end of
\* the list or to where Esc breaks it off.
MarkMsgs_Txt(text) ==
    \E passed \in {lastread..n : n \in 0..MsgnCount} \cup {n..lastread : n \in 1..MsgnCount} :
        MarksBecome(Added(text \cap {msgn[i] : i \in passed}))

\* The array is given away and a new one filled by walking Msgn and the old
\* cells together: x is the old cell compared with, out what was copied.  The
\* walk does not stop at the last mark.
MarkMsgs_Toggle ==
    LET fresh == Tag!Resize(Tag!EmptyTag, MsgnCount - mark.count)
        cell(x) == IF x <= Len(mark.tag) THEN mark.tag[x] ELSE junk
        walk[n \in 0..MsgnCount] ==
            IF n = 0 THEN [x |-> 1, out |-> <<>>]
            ELSE LET w == walk[n - 1]
                 IN  IF cell(w.x) # msgn[n]
                     THEN [w EXCEPT !.out = Append(@, msgn[n])]
                     ELSE [w EXCEPT !.x = @ + 1]
        out == walk[MsgnCount].out
    IN  CASE mark.count = 0 -> MarksBecome(Tag!EmptyTag)
          [] mark.count # 0 /\ (\/ mark.count > MsgnCount
                                \/ Len(out) > Len(fresh.tag)) ->
                /\ crashed' = TRUE
                /\ UNCHANGED <<msgn, mark, lastread, bookmark, junk>>
          [] OTHER ->
                MarksBecome([fresh EXCEPT !.tag = [i \in DOMAIN fresh.tag |->
                    IF i <= Len(out) THEN out[i] ELSE fresh.tag[i]]])

\* Up the reply links to the first message that is still there, then down
\* from it.  A reply is marked before it is looked up.
ThreadNumbers ==
    LET up[m \in Msgno \cup {0}] ==
            IF m \in Present THEN {m} \cup up[ReplyTo[m]] ELSE {}
        root == CHOOSE m \in up[current] : ReplyTo[m] \notin up[current]
        down[m \in Msgno] ==
            IF m \in Present
            THEN Replies[m] \cup UNION {down[r] : r \in Replies[m]}
            ELSE {}
    IN  up[current] \cup down[root]

MarkMsgs_Thread == MarksBecome(Added(ThreadNumbers))

Used(key) == item' = key /\ sought' = {}

MarkMsgs ==
    /\ ~crashed
    /\ \/ Used("read") /\ \E reln \in 1..MsgnCount : Goto(reln)
       \/ Used("read") /\ ToggleBookMark
       \/ Used("one") /\ ToggleOneMark
       \/ Used("unmark") /\ MarkMsgs_Unmark
       \/ Used("toggle") /\ MarkMsgs_Toggle
       \/ Used("all") /\ MarkMsgs_All
       \/ Used("new") /\ MarkMsgs_New
       \/ Used("old") /\ MarkMsgs_Old
       \/ Used("range") /\ MarkMsgs_Range
       \/ \E text \in Texts : item' = "text" /\ sought' = text /\ MarkMsgs_Txt(text)
       \/ Used("thread") /\ MarkMsgs_Thread

MarksSpec == MarksInit /\ [][MarkMsgs]_MarksVars
-----------------------------------------------------------------------------
MarksTypeOK ==
    /\ Present \subseteq Msgno
    /\ mark.tags <= Len(mark.tag) /\ mark.count = mark.tags
    /\ lastread \in 1..MsgnCount
    /\ bookmark \in Msgno \cup {0}
    /\ crashed \in BOOLEAN
    /\ item \in {"none", "read", "one", "unmark", "toggle", "all", "new", "old", "range",
                "text", "thread"}
    /\ sought \in Texts \cup {{}}

\* The marks are kept in ascending order without repetition: Find bisects
\* them, NextMarkedmsg walks them and MarkMsgs_Toggle merges them with Msgn.
MarksOrdered == Tag!Ordered(mark)

\* The array implements a set of marked messages: each item of the menu, by
\* its searches, moves and resizes of cells, does to the numbers what is
\* promised of that item (module MarkSet), and no other item's promise will do.
MarkedSet == INSTANCE MarkSet WITH
    present <- Present, marked <- Tag!Numbers(mark), at <- current
ImplementsMarkSet == MarkedSet!Spec

\* Only messages of the area are marked.  MarkMsgs_Thread does not keep to
\* it: it marks a reply that is linked to before it looks for it.
MarksPresent == Tag!Numbers(mark) \subseteq Present
=============================================================================

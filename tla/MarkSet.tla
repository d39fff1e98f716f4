------------------------------ MODULE MarkSet ------------------------------
(***************************************************************************)
(* What the marking commands promise, without arrays: a set of marked      *)
(* messages of the area being read.  Every step names the item of the menu *)
(* or the key that was used, and does what is promised of that one.        *)
(***************************************************************************)
EXTENDS Integers

CONSTANTS Msgno,     \* the message numbers there are
          ReplyTo,   \* the message that one is a reply to, 0 if none
          Replies    \* the replies to a message, a set

VARIABLES present,   \* the messages of the area
          marked,
          at,        \* the message on screen
          bookmark,
          item,      \* what was used
          sought     \* the messages the text searched for is in

Init == marked = {}

\* Reading on, and setting or clearing the bookmark, leave the marks alone.
Browse == marked' = marked

ToggleOne == marked' = IF at \in marked THEN marked \ {at} ELSE marked \cup {at}

Unmark == marked' = {}

\* Without marks there is nothing to toggle.
Toggle == marked' = IF marked = {} THEN {} ELSE present \ marked

MarkAll == marked' = present

New == marked' = marked \cup {m \in present : m > at}

Old == marked' = marked \cup {m \in present : m < at}

Between(a, b) == {m \in present : (a <= m /\ m <= b) \/ (b <= m /\ m <= a)}

\* Everything between the bookmark and the message on screen.  Without a
\* bookmark in the area nothing is promised.
Span == bookmark \in present => marked' = marked \cup Between(bookmark, at)

\* The messages with the text, from the one on screen as far as the search
\* got, in one direction, if it looked at any.
Text == \/ marked' = marked
        \/ \E last \in present : marked' = marked \cup (sought' \cap Between(at, last))

\* The message on screen and those it goes back to, as long as they are there.
Lineage ==
    {m \in present : \A S \in SUBSET present :
        at \in S /\ (\A s \in S : ReplyTo[s] \in present => ReplyTo[s] \in S) => m \in S}

\* The first of them, and all that answers it, directly or not.  What is
\* answered by a message that is not there is not known.
Origin == CHOOSE m \in Lineage : ReplyTo[m] \notin Lineage
Answers ==
    {m \in Msgno : \A S \in SUBSET Msgno :
        Replies[Origin] \subseteq S /\ (\A s \in S \cap present : Replies[s] \subseteq S) => m \in S}

Thread == marked' = marked \cup Lineage \cup Answers

Next == /\ present' = present
        /\ \/ item' = "read"   /\ Browse
           \/ item' = "one"    /\ ToggleOne
           \/ item' = "unmark" /\ Unmark
           \/ item' = "toggle" /\ Toggle
           \/ item' = "all"    /\ MarkAll
           \/ item' = "new"    /\ New
           \/ item' = "old"    /\ Old
           \/ item' = "range"  /\ Span
           \/ item' = "text"   /\ Text
           \/ item' = "thread" /\ Thread

Spec == Init /\ [][Next]_<<present, marked, item, sought>>
=============================================================================

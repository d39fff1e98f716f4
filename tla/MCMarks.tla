------------------------------ MODULE MCMarks ------------------------------
EXTENDS Marks

MCMsgno   == 1..4
\* One thread: 1 is answered by 2 and 3, and 2 by 4.
MCReplyTo == <<0, 1, 1, 2>>
MCReplies == <<{2, 3}, {4}, {}, {}>>
\* One text to search for, in all messages but the second.
MCTexts   == {{1, 3, 4}}

\* Toggling is only promised to work when every mark is a message of the
\* area, and the cell after the last mark holds no message number.
CleanToggle ==
    /\ MarksPresent
    /\ mark.tags < Len(mark.tag) => mark.tag[mark.tags + 1] \notin Present
CleanSpec == MarksInit /\ [][MarkMsgs /\ (item' = "toggle" => CleanToggle)]_MarksVars

\* The same without a promise about the cell after the last mark.
ToggleSpec == MarksInit /\ [][MarkMsgs /\ (item' = "toggle" => MarksPresent)]_MarksVars
=============================================================================

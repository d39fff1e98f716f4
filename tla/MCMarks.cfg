CONSTANTS
    Msgno <- MCMsgno
    ReplyTo <- MCReplyTo
    Replies <- MCReplies
    Texts <- MCTexts
    Granularity = 2
    Junk = {0, 3}
SPECIFICATION CleanSpec
CHECK_DEADLOCK FALSE
INVARIANTS MarksTypeOK MarksOrdered
PROPERTY ImplementsMarkSet

CONSTANTS
    Msgno <- MCMsgno
    ReplyTo <- MCReplyTo
    Replies <- MCReplies
    Texts <- MCTexts
    Granularity = 2
    Junk = {0, 3}
SPECIFICATION ToggleSpec
CHECK_DEADLOCK FALSE
PROPERTY ImplementsMarkSet

SPECIFICATION Spec
CONSTANTS
    golded = golded
    other = other
    Proc <- Two
    NoProc = NoProc
    FrmSize = 1
    BaseSize = 1
    Blank = FALSE
    Posted = 3
    MaxMsgs = 0
    ProtMsgs = 0
    Recycles = {1}
    Sizes = {1}
    Calls = {"hdr", "del"}
    MayCrash = {}
    MaxNumber = 4
    MaxEnd = 9
PROPERTIES HeadersKept

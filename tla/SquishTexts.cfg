SPECIFICATION Spec
CONSTANTS
    golded = golded
    other = other
    Proc <- Two
    NoProc = NoProc
    FrmSize = 1
    BaseSize = 1
    Blank = TRUE
    Posted = 0
    MaxMsgs = 0
    ProtMsgs = 0
    Recycles = {1}
    Sizes = {1}
    Calls = {"new"}
    MayCrash = {}
    MaxNumber = 3
    MaxEnd = 6
PROPERTIES TextsKept

SPECIFICATION DriverSpec
CONSTANTS
    golded = golded
    other = other
    Programs = {golded, other}
    NoProc = NoProc
    path = path
    FrmSize = 1
    BaseSize = 1
    Users = {golded}
    Running = {golded}
    Calls = {}
    IsNet = FALSE
    FirstNos = {}
    MaxMsgno = 1
    MaxPosts = 0
INVARIANTS LocksHeld HudsonInv HudsonCounts JamTextOwned JamCounts
PROPERTY JamHeaders

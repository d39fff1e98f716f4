SPECIFICATION DriverSpec
CONSTANTS
    golded = golded
    other = other
    Programs = {golded}
    NoProc = NoProc
    path = path
    FrmSize = 1
    BaseSize = 1
    Users = {golded, other}
    Running = {golded}
    Calls = {"post", "reply", "hdr", "del", "renumber", "suspend"}
    IsNet = FALSE
    FirstNos = {3}
    MaxMsgno = 5
    MaxPosts = 3
INVARIANTS DriverTypes NobodyMisses FidoLinksKept JamActiveMsgs JamContents
           SquishChains SquishTiled SquishFound SquishStops
           HudsonIndex HudsonList HudsonScanning
PROPERTIES AreLists SquishLimits HudsonPersonal

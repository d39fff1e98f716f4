CONSTANTS
    Proc = {p, q}
    NoProc = none
    HardDelete = TRUE
    Blank = TRUE
    Calls = {"new", "hdr", "txt", "del", "timesread", "close", "suspend"}
    MayCrash = {p}
    MaxMsg = 1
    MaxHdr = 2
    MaxActive = 1
SPECIFICATION FairSpec
INVARIANTS IInv TypeOK MutualExclusion IndexNumbers
PROPERTY LockReleased

SPECIFICATION Spec
CONSTANTS
    golded = golded
    other = other
    Users = {golded, other}
    Running = {golded}
    Calls = {"reply", "del", "renumber"}
    IsNet = FALSE
    FirstNos = {2}
    MaxMsgno = 5
    MaxPosts = 3
INVARIANT LinksFollow


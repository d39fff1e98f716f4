SPECIFICATION Spec
CONSTANTS
    Personal = {2, 3}
    DispPmFirst = TRUE
    DispAutoNext = TRUE
    Posted = 3
    MaxMsg = 4
INVARIANTS TypeOK OnScreen
PROPERTIES PlaceKept NothingSkipped PmRestored

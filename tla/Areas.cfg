SPECIFICATION FairSpec
CONSTANTS Areas = {1, 2}  Nets = {2}  AtStartup = {2}  Excluded = {2}
          ScanOrder <- Order  MaxMail = 1  MaxSems = 2
          Kinds = {"qwkimport", "exitnow", "scanall", "scanthis"}
INVARIANTS TypeOK NothingOverlooked
PROPERTIES NothingLost ScansCurrent BarKept SemaphoreSeen
CHECK_DEADLOCK FALSE

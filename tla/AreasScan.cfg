SPECIFICATION Spec
CONSTANTS Areas = {1, 2}  Nets = {2}  AtStartup = {2}  Excluded = {2}
          ScanOrder <- Order  MaxMail = 1  MaxSems = 1
          Kinds = {"qwkimport", "exitnow", "scanall", "scanthis", "scannetmail"}
INVARIANT ScansClosed
CHECK_DEADLOCK FALSE

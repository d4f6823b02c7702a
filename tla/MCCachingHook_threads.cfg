CONSTANTS
  Threads = {t1, t2}
  Keys = {k1, k2}
  MaxVersion = 1
  MaxAge = 0
  MaxSize = 2
  Statuses = {"ok", "error"}
  CodesToCache = {"ok"}
SPECIFICATION FairSpec
INVARIANT TypeOK
PROPERTIES
  CacheCatchesUp
  InsertsTwiceOnlyInRaces

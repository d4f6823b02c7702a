CONSTANTS
  Threads = {t1, t2}
  Keys = {k1, k2}
  MaxVersion = 0
  MaxAge = 1
  MaxSize = 2
  Statuses = {"ok"}
  CodesToCache = {"ok"}
SPECIFICATION Spec
PROPERTY EvictsLeastRecentlyUsed
